---------------------------- MODULE Spec2Model ----------------------------
(***************************************************************************)
(* Shared market-data cache, throttled projections and momentum trackers   *)
(* of the trading dashboard (src/src/hooks/useBinance.ts and               *)
(* src/src/hooks/useLiveMomentum.ts, which also holds useMomentum).        *)
(*                                                                         *)
(* Every callback of the single-threaded event loop is one action.  A      *)
(* React state updater passed to a setter is taken together with the       *)
(* callback that queues it.                                                *)
(***************************************************************************)
EXTENDS Integers, Sequences, FiniteSets, TLC

(***************************************************************************)
(* Bounds of the model.                                                    *)
(***************************************************************************)
MaxPrice == 2
MaxStale == 1
MaxTickersPerMsg == 1
MaxArrivals == 5
MaxClock == 2
MaxFolders == 2
MaxLiveFolders == 1
MaxSamples == 3
MaxSnapshots == 3
MaxThrottleSteps == 4

Prices == 1..MaxPrice

(***************************************************************************)
(* Symbols.  A wire symbol is a sequence of tokens, so that                *)
(* s.endsWith('USDT') and s.replace('USDT', '') are computed, not assumed. *)
(***************************************************************************)
USDT == "USDT"
TickerSymbols == { <<"A", USDT>>, <<"B", USDT>>, <<"A", "BTC">> }

EndsWithUSDT(s) == Len(s) > 0 /\ s[Len(s)] = USDT

\* String.prototype.replace with a string pattern: the first occurrence only.
ReplaceUSDT(s) ==
  IF \E i \in 1..Len(s) : s[i] = USDT
  THEN LET i == CHOOSE j \in 1..Len(s) :
                  s[j] = USDT /\ \A k \in 1..(j - 1) : s[k] # USDT
       IN  SubSeq(s, 1, i - 1) \o SubSeq(s, i + 1, Len(s))
  ELSE s

UsdtTickerSymbols == { s \in TickerSymbols : EndsWithUSDT(s) }
CoinSymbols == { ReplaceUSDT(s) : s \in UsdtTickerSymbols }

Consumers == { "c1", "c2" }
Listeners == { "l1" }
Periods == { "24h", "1h" }

EmptyMap == << >>

Put(m, k, v) == [x \in (DOMAIN m) \cup {k} |-> IF x = k THEN v ELSE m[x]]

\* A ticker of the !ticker@arr stream: s the wire symbol, c the last price.
Tickers == [s : TickerSymbols, c : Prices]

RECURSIVE SeqsUpTo(_, _)
SeqsUpTo(S, n) ==
  IF n = 0 THEN { << >> }
  ELSE LET shorter == SeqsUpTo(S, n - 1)
       IN  shorter \cup { Append(q, x) : q \in { r \in shorter : Len(r) = n - 1 }, x \in S }

TickerMessages == { m \in SeqsUpTo(Tickers, MaxTickersPerMsg) : Len(m) > 0 }

\* The REST snapshot /api/v3/ticker/24hr after the USDT filter: the pairs
\* listed at the time of the request, with their prices.
RestSnapshots ==
  UNION { [D -> Prices] : D \in { {<<"A">>}, CoinSymbols } }

VARIABLES
  mounted,            \* useBinanceTickers consumer is mounted
  period,             \* its period argument
  wsOpen,             \* wsRef.current is an open !ticker@arr socket
  pendingUpdatesRef,  \* Map<wire symbol, ticker>
  throttleTimerRef,   \* "null", "live" (handle of a scheduled timeout),
                      \* "cleared" (handle of a cleared timeout: still truthy)
  flushTimers,        \* number of scheduled flush timeouts
  coins,              \* coins state: coin symbol -> price (empty: [])
  fetchLive,          \* the effect run's fetchInitialData, isCancelled false
  staleFetches,       \* requests in flight whose effect run was cleaned up
  sharedPriceCache,   \* module-level Record<string, number>
  priceListeners,     \* module-level Set of useBinancePrice listeners
  hookSymbol,         \* useBinancePrice: symbol argument
  hookPrice,          \* useBinancePrice: price state
  lastMsg,            \* history: per consumer, the last ticker received for
                      \* each wire symbol since the last flush
  lastTicker,         \* history: coin symbol -> price of the last USDT ticker
  coalesce,           \* history: per consumer, "pending" once a ticker of the
                      \* current period replaced an earlier one of its symbol
                      \* at another price, "flushed" when the last flush
                      \* applied such a period to a listed coin, else "none"
  tradeSymbol,        \* useRecentTrades: symbol argument (<< >>: not mounted)
  pendingTrades,      \* the effect run's pendingTrades array
  tradeTimer,         \* the effect run's throttleTimer is scheduled
  trades,             \* trades state
  arrivals,           \* number of trade messages received so far
  delivered,          \* history: arrival numbers handed to a flush
  now,                \* Date.now()
  folders,            \* useMomentum: folders state
  results,            \* useMomentum: results state, folder id -> results
  intervalsRef,       \* useMomentum: folder ids holding an interval handle
  intervalTimers,     \* scheduled setInterval timers, by captured folder id
  priceBuffersRef,    \* useMomentum: symbol -> price array
  activePricesRef,    \* useMomentum: symbol -> price (the component's pricesRef)
  momentumStorage,    \* localStorage item 'momentumFolders'
  liveFolders,        \* useLiveMomentum: folders state
  saveTimeoutRef,     \* useLiveMomentum: the debounced save is scheduled
  liveStorageV2,      \* localStorage item 'liveMomentumFolders_v2' (<< >>: none)
  liveStorageOld,     \* localStorage item 'liveMomentumFolders' (<< >>: none)
  uncaught,           \* feeds whose onmessage handler threw an exception
  klineOpen,          \* useBinanceKlines: the effect ran and is not cancelled
  klineFetch,         \* the effect run's fetchKlines() is in flight
  klines,             \* klines state
  pendingLiveCandle,  \* the effect run's pendingLiveCandle (<< >>: null)
  liveUpdateTimer,    \* the effect run's liveUpdateTimer is scheduled
  klineArrivals,      \* number of kline messages and responses received
  depthOpen,          \* useOrderBook: the effect ran, the socket is open
  pendingData,        \* the effect run's pendingData (<< >>: null)
  depthTimer,         \* the effect run's throttleTimer is scheduled
  bids,               \* bids state
  asks,               \* asks state
  lastDepth,          \* history: the last depth message with b and a (<< >>: none)
  depthArrivals,      \* number of depth messages received
  toast,              \* the last toast shown by a tracker component
  engineInput,        \* a price sequence handed to the regression engines
  engineOutput,       \* what calculateMomentum returned for it (<< >>: not called)
  liveEngineOutput,   \* what calculateLinearRegressionMomentum returned for it
  lastCall,           \* history: the last observed hook call, its arguments and the state before it (<< >>: none)
  coinsSnapshot,      \* LiveMomentumTracker: the coins of the render, symbol -> price
  lastUpdateRef,      \* lastUpdateRef.current
  updateTimer,        \* the scheduled doUpdate: << >> or << [due, currentPrices] >>
  roundLog,           \* history: the last two rounds of updateAllPrices calls, [at, prices]
  snapshotChanges     \* history: number of changes of coins so far

tickerVars ==
  << mounted, period, wsOpen, pendingUpdatesRef, throttleTimerRef, flushTimers,
     coins, fetchLive, staleFetches, lastMsg, coalesce >>
cacheVars == << sharedPriceCache, priceListeners, hookSymbol, hookPrice, lastTicker >>

tradeVars == << tradeSymbol, pendingTrades, tradeTimer, trades, arrivals, delivered >>

momentumVars ==
  << folders, results, intervalsRef, intervalTimers, priceBuffersRef,
     activePricesRef, momentumStorage >>

liveVars == << liveFolders, saveTimeoutRef, liveStorageV2, liveStorageOld >>

trackerVars == << now, momentumVars, liveVars >>

klineVars == << klineOpen, klineFetch, klines, pendingLiveCandle, liveUpdateTimer, klineArrivals >>

depthVars == << depthOpen, pendingData, depthTimer, bids, asks, lastDepth, depthArrivals >>

feedVars == << uncaught, klineVars, depthVars >>

throttleVars == << coinsSnapshot, lastUpdateRef, updateTimer, roundLog, snapshotChanges >>

engineVars == << engineInput, engineOutput, liveEngineOutput, lastCall, throttleVars >>

restVars == << feedVars, toast, engineVars >>

vars == << tickerVars, cacheVars, tradeVars, trackerVars, restVars >>

NoFetch == [stage |-> "none", data |-> EmptyMap]

\* toast.success / toast.error / toast.info of the tracker components
NoToast == [kind |-> "none", text |-> ""]
Toast(kind, text) == [kind |-> kind, text |-> text]

(***************************************************************************)
(* Shared price cache                                                      *)
(***************************************************************************)
getSharedPrice(cache, symbol) ==
  IF symbol \in DOMAIN cache THEN cache[symbol] ELSE 0

\* The listener of useBinancePrice, applied to one hook's price state.
ListenerResult(cache, l, old) ==
  IF hookSymbol[l] \in DOMAIN cache /\ cache[hookSymbol[l]] > 0
  THEN cache[hookSymbol[l]]
  ELSE old

\* notifyPriceListeners: every listener in the set gets the cache itself.
notifyPriceListeners(cache) ==
  [l \in Listeners |->
     IF l \in priceListeners THEN ListenerResult(cache, l, hookPrice[l])
     ELSE hookPrice[l]]

(***************************************************************************)
(* useBinanceTickers                                                       *)
(***************************************************************************)
\* pendingUpdatesRef.current.set(ticker.s, ticker)
BufferMutantFirstWins(pending, t) ==
  IF t.s \in DOMAIN pending THEN pending ELSE Put(pending, t.s, t.c)

BufferTicker(pending, t) == Put(pending, t.s, t.c)

\* The forEach of onmessage over the tickers of one message.
RECURSIVE BufferAll(_, _)
BufferAll(pending, tickers) ==
  IF tickers = << >> THEN pending
  ELSE LET t == Head(tickers)
       IN  BufferAll(IF EndsWithUSDT(t.s) THEN BufferTicker(pending, t) ELSE pending,
                     Tail(tickers))

\* sharedPriceCache[ticker.s.replace('USDT', '')] = parseFloat(ticker.c)
RECURSIVE CacheAll(_, _)
CacheAll(cache, tickers) ==
  IF tickers = << >> THEN cache
  ELSE LET t == Head(tickers)
       IN  CacheAll(IF EndsWithUSDT(t.s) THEN Put(cache, ReplaceUSDT(t.s), t.c) ELSE cache,
                    Tail(tickers))

\* History only: what "the last message for a symbol" means.
RECURSIVE LastAll(_, _)
LastAll(last, tickers) ==
  IF tickers = << >> THEN last
  ELSE LET t == Head(tickers)
       IN  LastAll(IF EndsWithUSDT(t.s) THEN Put(last, t.s, t.c) ELSE last, Tail(tickers))

\* History only: some ticker of the message replaces an earlier ticker of
\* its symbol, received in the same period at another price.
RECURSIVE Replaces(_, _)
Replaces(last, tickers) ==
  IF tickers = << >> THEN FALSE
  ELSE LET t == Head(tickers)
       IN  \/ EndsWithUSDT(t.s) /\ t.s \in DOMAIN last /\ last[t.s] # t.c
           \/ Replaces(IF EndsWithUSDT(t.s) THEN Put(last, t.s, t.c) ELSE last,
                       Tail(tickers))

\* if (!throttleTimerRef.current) throttleTimerRef.current = setTimeout(..., 1000)
ShouldArm(ref) == ref = "null"

\* The setCoins updater of the flush: the coin list with every pending
\* ticker whose symbol is in the list applied.
FlushedCoins(prev, updates) ==
  [sym \in DOMAIN prev |->
     IF \E ts \in DOMAIN updates : ReplaceUSDT(ts) = sym
     THEN updates[CHOOSE ts \in DOMAIN updates : ReplaceUSDT(ts) = sym]
     ELSE prev[sym]]

FlushChanged(prev, updates) ==
  \E ts \in DOMAIN updates : ReplaceUSDT(ts) \in DOMAIN prev

\* Mounting runs the effect: fetchInitialData() is started and the socket opened.
MountTickers(c) ==
  /\ UNCHANGED << tradeVars, trackerVars, restVars >>
  /\ ~mounted[c]
  /\ mounted' = [mounted EXCEPT ![c] = TRUE]
  /\ fetchLive' = [fetchLive EXCEPT ![c] = [stage |-> "ticker", data |-> EmptyMap]]
  /\ wsOpen' = [wsOpen EXCEPT ![c] = TRUE]
  /\ UNCHANGED << period, pendingUpdatesRef, throttleTimerRef, flushTimers, coins,
                  staleFetches, lastMsg, coalesce, cacheVars >>

\* clearTimeout(throttleTimerRef.current): the handle stays in the ref.
ClearedRef(ref) == IF ref = "live" THEN "cleared" ELSE ref
ClearedTimers(ref, n) == IF ref = "live" /\ n > 0 THEN n - 1 ELSE n

\* A request the cleanup leaves in flight; after the ticker response an
\* isCancelled run writes nothing more.
StaleAfterCleanup(c) ==
  IF fetchLive[c].stage = "ticker" THEN staleFetches[c] + 1 ELSE staleFetches[c]

\* The period argument changes: the effect's cleanup, then the effect again.
\* The refs (pendingUpdatesRef, throttleTimerRef) outlive the effect run.
PeriodChange(c, p) ==
  /\ UNCHANGED << tradeVars, trackerVars, restVars >>
  /\ mounted[c]
  /\ p # period[c]
  /\ StaleAfterCleanup(c) <= MaxStale
  /\ period' = [period EXCEPT ![c] = p]
  /\ staleFetches' = [staleFetches EXCEPT ![c] = StaleAfterCleanup(c)]
  /\ throttleTimerRef' = [throttleTimerRef EXCEPT ![c] = ClearedRef(@)]
  /\ flushTimers' = [flushTimers EXCEPT ![c] = ClearedTimers(throttleTimerRef[c], @)]
  /\ fetchLive' = [fetchLive EXCEPT ![c] = [stage |-> "ticker", data |-> EmptyMap]]
  /\ wsOpen' = [wsOpen EXCEPT ![c] = TRUE]
  /\ UNCHANGED << mounted, pendingUpdatesRef, coins, lastMsg, coalesce, cacheVars >>

\* Unmount: the cleanup runs and the component's state and refs are gone.
UnmountTickers(c) ==
  /\ UNCHANGED << tradeVars, trackerVars, restVars >>
  /\ mounted[c]
  /\ StaleAfterCleanup(c) <= MaxStale
  /\ mounted' = [mounted EXCEPT ![c] = FALSE]
  /\ staleFetches' = [staleFetches EXCEPT ![c] = StaleAfterCleanup(c)]
  /\ period' = [period EXCEPT ![c] = "24h"]
  /\ wsOpen' = [wsOpen EXCEPT ![c] = FALSE]
  /\ pendingUpdatesRef' = [pendingUpdatesRef EXCEPT ![c] = EmptyMap]
  /\ throttleTimerRef' = [throttleTimerRef EXCEPT ![c] = "null"]
  /\ flushTimers' = [flushTimers EXCEPT ![c] = ClearedTimers(throttleTimerRef[c], @)]
  /\ coins' = [coins EXCEPT ![c] = EmptyMap]
  /\ fetchLive' = [fetchLive EXCEPT ![c] = NoFetch]
  /\ lastMsg' = [lastMsg EXCEPT ![c] = EmptyMap]
  /\ coalesce' = [coalesce EXCEPT ![c] = "none"]
  /\ UNCHANGED cacheVars

\* wsRef.current.onmessage with a non-empty ticker array.
TickerMessage(c, tickers) ==
  /\ UNCHANGED << tradeVars, trackerVars, restVars >>
  /\ wsOpen[c]
  /\ pendingUpdatesRef' = [pendingUpdatesRef EXCEPT ![c] = BufferAll(@, tickers)]
  /\ sharedPriceCache' = CacheAll(sharedPriceCache, tickers)
  /\ lastTicker' = CacheAll(lastTicker, tickers)
  /\ IF ShouldArm(throttleTimerRef[c])
     THEN /\ throttleTimerRef' = [throttleTimerRef EXCEPT ![c] = "live"]
          /\ flushTimers' = [flushTimers EXCEPT ![c] = @ + 1]
          /\ lastMsg' = [lastMsg EXCEPT ![c] = LastAll(EmptyMap, tickers)]
          /\ coalesce' = [coalesce EXCEPT ![c] =
                            IF Replaces(EmptyMap, tickers) THEN "pending" ELSE "none"]
     ELSE /\ lastMsg' = [lastMsg EXCEPT ![c] = LastAll(@, tickers)]
          /\ coalesce' = [coalesce EXCEPT ![c] =
                            IF Replaces(lastMsg[c], tickers) THEN "pending" ELSE @]
          /\ UNCHANGED << throttleTimerRef, flushTimers >>
  /\ UNCHANGED << mounted, period, wsOpen, coins, fetchLive, staleFetches,
                  priceListeners, hookSymbol, hookPrice >>

\* The timeout callback of line 160 fires.
TickerFlush(c) ==
  /\ UNCHANGED << tradeVars, trackerVars, restVars >>
  /\ flushTimers[c] > 0
  /\ flushTimers' = [flushTimers EXCEPT ![c] = @ - 1]
  /\ throttleTimerRef' = [throttleTimerRef EXCEPT ![c] = "null"]
  /\ LET updates == pendingUpdatesRef[c]
     IN  IF updates = EmptyMap
         THEN UNCHANGED << pendingUpdatesRef, coins, hookPrice, lastMsg, coalesce >>
         ELSE /\ pendingUpdatesRef' = [pendingUpdatesRef EXCEPT ![c] = EmptyMap]
              /\ lastMsg' = [lastMsg EXCEPT ![c] = EmptyMap]
              /\ coalesce' = [coalesce EXCEPT ![c] =
                                IF @ = "pending" /\ FlushChanged(coins[c], updates)
                                THEN "flushed" ELSE "none"]
              /\ IF FlushChanged(coins[c], updates)
                 THEN /\ coins' = [coins EXCEPT ![c] = FlushedCoins(@, updates)]
                      /\ hookPrice' = notifyPriceListeners(sharedPriceCache)
                 ELSE UNCHANGED << coins, hookPrice >>
  /\ UNCHANGED << mounted, period, wsOpen, fetchLive, staleFetches,
                  sharedPriceCache, priceListeners, hookSymbol, lastTicker >>

\* usdtPairs.forEach(c => { sharedPriceCache[c.symbol] = c.price })
CacheSnapshot(cache, data) ==
  [sym \in (DOMAIN cache) \cup (DOMAIN data) |->
     IF sym \in DOMAIN data THEN data[sym] ELSE cache[sym]]

\* The ticker response of the current effect run arrives.  With period 24h
\* updatePriceChanges returns its argument and nothing can run in between.
RestResponse(c, data) ==
  /\ UNCHANGED << tradeVars, trackerVars, restVars >>
  /\ fetchLive[c].stage = "ticker"
  /\ sharedPriceCache' = CacheSnapshot(sharedPriceCache, data)
  /\ IF period[c] = "24h"
     THEN /\ coins' = [coins EXCEPT ![c] = data]
          /\ hookPrice' = notifyPriceListeners(sharedPriceCache')
          /\ fetchLive' = [fetchLive EXCEPT ![c] = NoFetch]
     ELSE /\ fetchLive' = [fetchLive EXCEPT ![c] = [stage |-> "klines", data |-> data]]
          /\ UNCHANGED << coins, hookPrice >>
  /\ UNCHANGED << mounted, period, wsOpen, pendingUpdatesRef, throttleTimerRef,
                  flushTimers, staleFetches, lastMsg, coalesce, priceListeners,
                  hookSymbol, lastTicker >>

\* updatePriceChanges resolves for the current effect run (period not 24h).
PriceChangesDone(c) ==
  /\ UNCHANGED << tradeVars, trackerVars, restVars >>
  /\ fetchLive[c].stage = "klines"
  /\ coins' = [coins EXCEPT ![c] = fetchLive[c].data]
  /\ hookPrice' = notifyPriceListeners(sharedPriceCache)
  /\ fetchLive' = [fetchLive EXCEPT ![c] = NoFetch]
  /\ UNCHANGED << mounted, period, wsOpen, pendingUpdatesRef, throttleTimerRef,
                  flushTimers, staleFetches, lastMsg, coalesce, sharedPriceCache,
                  priceListeners, hookSymbol, lastTicker >>

\* The ticker response of a cleaned-up effect run arrives: line 123 runs
\* before the isCancelled test of line 127.
StaleRestResponse(c, data) ==
  /\ UNCHANGED << tradeVars, trackerVars, restVars >>
  /\ staleFetches[c] > 0
  /\ staleFetches' = [staleFetches EXCEPT ![c] = @ - 1]
  /\ sharedPriceCache' = CacheSnapshot(sharedPriceCache, data)
  /\ UNCHANGED << mounted, period, wsOpen, pendingUpdatesRef, throttleTimerRef,
                  flushTimers, coins, fetchLive, lastMsg, coalesce, priceListeners,
                  hookSymbol, hookPrice, lastTicker >>

\* fetch or response.json() rejects: the catch block (setError).
RestFail(c) ==
  /\ UNCHANGED << tradeVars, trackerVars, restVars >>
  /\ \/ /\ fetchLive[c].stage = "ticker"
        /\ fetchLive' = [fetchLive EXCEPT ![c] = NoFetch]
        /\ UNCHANGED staleFetches
     \/ /\ staleFetches[c] > 0
        /\ staleFetches' = [staleFetches EXCEPT ![c] = @ - 1]
        /\ UNCHANGED fetchLive
  /\ UNCHANGED << mounted, period, wsOpen, pendingUpdatesRef, throttleTimerRef,
                  flushTimers, coins, lastMsg, coalesce, cacheVars >>

(***************************************************************************)
(* useBinancePrice                                                         *)
(***************************************************************************)
\* useState(() => getSharedPrice(symbol)), then the effect: the cached price
\* if positive, and the listener joins priceListeners.
MountPrice(l, sym) ==
  /\ UNCHANGED << tradeVars, trackerVars, restVars >>
  /\ hookSymbol[l] = << >>
  /\ hookSymbol' = [hookSymbol EXCEPT ![l] = sym]
  /\ hookPrice' = [hookPrice EXCEPT ![l] = getSharedPrice(sharedPriceCache, sym)]
  /\ priceListeners' = priceListeners \cup {l}
  /\ UNCHANGED << tickerVars, sharedPriceCache, lastTicker >>

UnmountPrice(l) ==
  /\ UNCHANGED << tradeVars, trackerVars, restVars >>
  /\ hookSymbol[l] # << >>
  /\ hookSymbol' = [hookSymbol EXCEPT ![l] = << >>]
  /\ hookPrice' = [hookPrice EXCEPT ![l] = 0]
  /\ priceListeners' = priceListeners \ {l}
  /\ UNCHANGED << tickerVars, sharedPriceCache, lastTicker >>

\* The symbol argument changes while the hook is mounted: the state keeps
\* its value (the useState initialiser runs once), the cleanup removes the
\* listener, and the effect runs for the new symbol.
PriceSymbolChange(l, sym) ==
  /\ UNCHANGED << tradeVars, trackerVars, restVars >>
  /\ hookSymbol[l] # << >>
  /\ sym # hookSymbol[l]
  /\ hookSymbol' = [hookSymbol EXCEPT ![l] = sym]
  /\ hookPrice' = [hookPrice EXCEPT ![l] =
                     IF getSharedPrice(sharedPriceCache, sym) > 0
                     THEN getSharedPrice(sharedPriceCache, sym) ELSE @]
  /\ priceListeners' = (priceListeners \ {l}) \cup {l}
  /\ UNCHANGED << tickerVars, sharedPriceCache, lastTicker >>

(***************************************************************************)
(* useRecentTrades                                                         *)
(***************************************************************************)
TradeCap == 50

\* slice(0, n) of an array.
SliceTo(q, n) == SubSeq(q, 1, IF Len(q) < n THEN Len(q) ELSE n)

\* setTrades(prev => [...batch, ...prev].slice(0, 50))
MergeTrades(batch, prev) == SliceTo(batch \o prev, TradeCap)

\* The trade built by onmessage from a message of the symbol's @trade
\* stream; n is its arrival number (its tradeId and tradeTime grow with it).
NewTrade(wire, n) == [id |-> n, symbol |-> ReplaceUSDT(wire)]

\* The effect of useRecentTrades(symbol) runs: a socket for the symbol, an
\* empty pendingTrades and no timer.  The trades state starts empty.
MountTrades(sym) ==
  /\ tradeSymbol = << >>
  /\ tradeSymbol' = sym
  /\ pendingTrades' = << >>
  /\ tradeTimer' = FALSE
  /\ trades' = << >>
  /\ delivered' = {}
  /\ UNCHANGED << arrivals, tickerVars, cacheVars, trackerVars, restVars >>

\* The symbol argument changes: cleanup (clearTimeout, close), then the
\* effect again with its own pendingTrades and throttleTimer.  The trades
\* state is the component's and is kept.
TradesSymbolChange(sym) ==
  /\ tradeSymbol # << >>
  /\ sym # tradeSymbol
  /\ tradeSymbol' = sym
  /\ pendingTrades' = << >>
  /\ tradeTimer' = FALSE
  /\ UNCHANGED << trades, arrivals, delivered, tickerVars, cacheVars, trackerVars, restVars >>

UnmountTrades ==
  /\ tradeSymbol # << >>
  /\ tradeSymbol' = << >>
  /\ pendingTrades' = << >>
  /\ tradeTimer' = FALSE
  /\ trades' = << >>
  /\ delivered' = {}
  /\ UNCHANGED << arrivals, tickerVars, cacheVars, trackerVars, restVars >>

\* wsRef.current.onmessage of the @trade stream.
TradeMessage ==
  /\ tradeSymbol # << >>
  /\ arrivals < MaxArrivals
  /\ arrivals' = arrivals + 1
  /\ pendingTrades' = Append(pendingTrades, NewTrade(tradeSymbol \o << USDT >>, arrivals + 1))
  /\ tradeTimer' = TRUE
  /\ UNCHANGED << tradeSymbol, trades, delivered, tickerVars, cacheVars, trackerVars, restVars >>

\* flush, the 250 ms timeout callback.
TradeFlush ==
  /\ tradeTimer
  /\ tradeTimer' = FALSE
  /\ IF pendingTrades = << >>
     THEN UNCHANGED << pendingTrades, trades, delivered >>
     ELSE /\ pendingTrades' = << >>
          /\ trades' = MergeTrades(pendingTrades, trades)
          /\ delivered' = delivered \cup { pendingTrades[i].id : i \in 1..Len(pendingTrades) }
  /\ UNCHANGED << tradeSymbol, arrivals, tickerVars, cacheVars, trackerVars, restVars >>


(***************************************************************************)
(* Regression momentum engine.  A JavaScript number is a binary floating   *)
(* point value: every arithmetic operation returns the exact result        *)
(* rounded to the nearest representable value, ties to even.  A value is   *)
(* [m, e], standing for m * 2^e, with m odd (or m = 0 and e = 0) and       *)
(* |m| < 2^MantissaBits.  The significand is MantissaBits wide instead of  *)
(* 53; the exponent is unbounded (no overflow, underflow or NaN: the       *)
(* engine guards every division).                                          *)
(***************************************************************************)
MantissaBits == 10

Abs(x) == IF x < 0 THEN -x ELSE x

Pow2[k \in Nat] == IF k = 0 THEN 1 ELSE 2 * Pow2[k - 1]

BitLen[a \in Nat] == IF a = 0 THEN 0 ELSE 1 + BitLen[a \div 2]

Floats == [m : Int, e : Int]

\* the unique representation of m * 2^e
Canon[m \in Int, e \in Int] ==
  IF m = 0 THEN [m |-> 0, e |-> 0]
  ELSE IF m % 2 = 0 THEN Canon[m \div 2, e + 1]
  ELSE [m |-> m, e |-> e]

\* m * 2^e rounded to MantissaBits significant bits, ties to even
Round[m \in Int, e \in Int] ==
  LET a == Abs(m)
      s == BitLen[a] - MantissaBits
  IN  IF s <= 0 THEN Canon[m, e]
      ELSE LET q == a \div Pow2[s]
               r == a % Pow2[s]
               half == Pow2[s - 1]
               q1 == IF r > half \/ (r = half /\ q % 2 = 1) THEN q + 1 ELSE q
           IN  Canon[IF m < 0 THEN -q1 ELSE q1, e + s]

FInt(k) == Round[k, 0]
FZero == FInt(0)
FOne == FInt(1)
FNeg(a) == [m |-> -a.m, e |-> a.e]

\* 2^(Top(a) - 1) <= |a| < 2^Top(a)
Top(a) == a.e + BitLen[Abs(a.m)]

\* a + b: an operand below a quarter of the other's last place is absorbed
FAdd[a \in Floats, b \in Floats] ==
  IF a.m = 0 THEN b
  ELSE IF b.m = 0 THEN a
  ELSE IF Top(a) - Top(b) >= MantissaBits + 2 THEN a
  ELSE IF Top(b) - Top(a) >= MantissaBits + 2 THEN b
  ELSE LET e == IF a.e < b.e THEN a.e ELSE b.e
       IN  Round[a.m * Pow2[a.e - e] + b.m * Pow2[b.e - e], e]

FSub[a \in Floats, b \in Floats] == FAdd[a, FNeg(b)]

FMul[a \in Floats, b \in Floats] == Round[a.m * b.m, a.e + b.e]

\* a / b for b # 0: the quotient to MantissaBits + 2 bits and a sticky bit
FDiv[a \in Floats, b \in Floats] ==
  IF a.m = 0 THEN FZero
  ELSE LET na == Abs(a.m)
           nb == Abs(b.m)
           want == MantissaBits + 2 + BitLen[nb] - BitLen[na]
           k == IF want < 0 THEN 0 ELSE want
           n == na * Pow2[k]
           sticky == IF n % nb = 0 THEN 0 ELSE 1
           q == 2 * (n \div nb) + sticky
       IN  Round[IF (a.m < 0) = (b.m < 0) THEN q ELSE -q, a.e - b.e - k - 1]

FLess(a, b) == FSub[a, b].m < 0

\* Math.pow(x, 2)
FSquare[a \in Floats] == FMul[a, a]

\* the decimal literal n / d of the source text
FLit(n, d) == FDiv[FInt(n), FInt(d)]

\* reduce((sum, x, i) => sum + f(i), 0) over the indices 1..n
RECURSIVE FSumTo(_, _)
FSumTo(f, n) == IF n = 0 THEN FZero ELSE FAdd[FSumTo(f, n - 1), f[n]]

ZeroMomentum == [momentum |-> FZero, velocity |-> FZero, rSquared |-> FZero]

\* the element of a singleton: binds a value that is computed once
The(S) == CHOOSE x \in S : TRUE

\* Each const of the source is bound once, innermost last; a zero
\* denominator leaves no line to fit and the zero result is returned.
calculateMomentum(prices) ==
  LET N == Len(prices)
      FN == FInt(N)
  IN  IF N < 3 THEN ZeroMomentum
      ELSE The({ IF r = {} THEN ZeroMomentum ELSE The(r) : r \in { UNION { UNION { UNION { UNION { UNION {
        { [momentum |-> FMul[normalizedVelocity, rSquared],
           velocity |-> normalizedVelocity, rSquared |-> rSquared] :
            rSquared \in { IF FLess(FZero, ssTot)
                           THEN FSub[FOne, FDiv[ssRes, ssTot]] ELSE FZero },
            normalizedVelocity \in { IF FLess(FZero, avgPrice)
                                     THEN FDiv[velocity, avgPrice] ELSE FZero } } :
          ssRes \in { FSumTo([i \in 1..N |->
                        FSquare[FSub[FInt(prices[i]),
                                     FAdd[FMul[velocity, FInt(i)], intercept]]]], N) },
          ssTot \in { FSumTo([i \in 1..N |->
                        FSquare[FSub[FInt(prices[i]), meanP]]], N) },
          avgPrice \in { FDiv[S_P, FN] } } :
          intercept \in { FSub[meanP, FMul[velocity, FDiv[S_T, FN]]] } } :
          velocity \in { FDiv[numerator, denominator] },
          meanP \in { FDiv[S_P, FN] } } :
          numerator \in { FSub[FMul[FN, S_TP], FMul[S_T, S_P]] },
          denominator \in { FSub[FMul[FN, S_T2], FMul[S_T, S_T]] } \ { FZero } } :
          S_P \in { FSumTo([i \in 1..N |-> FInt(prices[i])], N) },
          S_T \in { FSumTo([i \in 1..N |-> FInt(i)], N) },
          S_TP \in { FSumTo([i \in 1..N |-> FMul[FInt(i), FInt(prices[i])]], N) },
          S_T2 \in { FSumTo([i \in 1..N |-> FMul[FInt(i), FInt(i)]], N) } } } })

\* getTrendState of useMomentum: thresholds 0.001 and 0.005, floor 0.3.
getTrendState(momentum, rSquared) ==
  LET threshold == FLit(1, 1000)
      strongThreshold == FLit(5, 1000)
  IN  IF FLess(rSquared, FLit(3, 10)) THEN "FLAT"
      ELSE IF FLess(strongThreshold, momentum) THEN "STRONG_UP"
      ELSE IF FLess(threshold, momentum) THEN "UP"
      ELSE IF FLess(momentum, FNeg(strongThreshold)) THEN "STRONG_DOWN"
      ELSE IF FLess(momentum, FNeg(threshold)) THEN "DOWN"
      ELSE "FLAT"

\* The trend badge of a coin's row in MomentumTracker.
MomentumRowTrend(coin) == getTrendState(coin.momentum, coin.rSquared)

(***************************************************************************)
(* Messages that are not what a handler expects.  JSON.parse of a text     *)
(* that is not JSON throws a SyntaxError; no handler has a try block, so   *)
(* the exception leaves onmessage and the statements after it do not run.  *)
(***************************************************************************)
Thrown(feed) == uncaught \cup { feed }

\* !ticker@arr: JSON.parse(event.data) throws.
TickerMessageNotJson(c) ==
  /\ wsOpen[c]
  /\ uncaught' = Thrown("ticker")
  /\ UNCHANGED << tickerVars, cacheVars, tradeVars, trackerVars, klineVars, depthVars, toast, engineVars >>

\* @trade: JSON.parse(event.data) throws.
TradeMessageNotJson ==
  /\ tradeSymbol # << >>
  /\ uncaught' = Thrown("trade")
  /\ UNCHANGED << tickerVars, cacheVars, tradeVars, trackerVars, klineVars, depthVars, toast, engineVars >>

\* The trade built from a JSON object without t, s, p, q, T and m: the id and
\* the time are Date.now(), the symbol is the hook's, price and amount NaN.
FieldlessTrade(symbol, t) == [id |-> t, symbol |-> symbol]

\* @trade: a JSON object that lacks the fields of a trade.
TradeMessageNoFields ==
  /\ tradeSymbol # << >>
  /\ arrivals < MaxArrivals
  /\ arrivals' = arrivals + 1
  /\ pendingTrades' = Append(pendingTrades, FieldlessTrade(tradeSymbol, now))
  /\ tradeTimer' = TRUE
  /\ UNCHANGED << tradeSymbol, trades, delivered, tickerVars, cacheVars, trackerVars, restVars >>

(***************************************************************************)
(* useBinanceKlines.  A candle is its open time and its close; a kline     *)
(* message carries the candle of data.k and k.x, whether it is closed.     *)
(***************************************************************************)
MaxKlineTime == 2
MaxKlineMsgs == 4

KlineTimes == 1..MaxKlineTime
Candles == [openTime : KlineTimes, close : Prices]
KlineMessages == [k : Candles, x : BOOLEAN]

\* The klines of the REST response: the server's candles, oldest first.
KlineResponses ==
  { << >> } \cup { [i \in 1..n |-> [openTime |-> i, close |-> 1]] : n \in KlineTimes }

\* [...prev].sort((a, b) => a.openTime - b.openTime): a stable sort
RECURSIVE SortByOpenTime(_)
SortByOpenTime(q) ==
  IF q = << >> THEN << >>
  ELSE LET least == CHOOSE i \in 1..Len(q) :
                      /\ \A j \in 1..Len(q) : q[i].openTime <= q[j].openTime
                      /\ \A j \in 1..(i - 1) : q[j].openTime # q[i].openTime
       IN  << q[least] >> \o SortByOpenTime(SubSeq(q, 1, least - 1) \o SubSeq(q, least + 1, Len(q)))

\* A closed candle is appended without removing the candles of its open time.
ApplyClosedMutantKeep(prev, kline) == SortByOpenTime(Append(prev, kline))

\* setKlines updater of a closed candle
ApplyClosed(prev, kline) ==
  SortByOpenTime(Append(SelectSeq(prev, LAMBDA p : p.openTime # kline.openTime), kline))

\* setKlines updater of the throttled in-progress candle
ApplyLive(prev, candle) ==
  IF Len(prev) > 0 /\ prev[Len(prev)].openTime = candle.openTime
  THEN [prev EXCEPT ![Len(prev)] = candle]
  ELSE Append(prev, candle)

\* The effect runs: fetchKlines() is started and the socket is opened.
MountKlines ==
  /\ ~klineOpen
  /\ klineOpen' = TRUE
  /\ klineFetch' = TRUE
  /\ klines' = << >>
  /\ pendingLiveCandle' = << >>
  /\ liveUpdateTimer' = FALSE
  /\ UNCHANGED << klineArrivals, uncaught, depthVars, toast, engineVars >>
  /\ UNCHANGED << tickerVars, cacheVars, tradeVars, trackerVars >>

\* Unmount: isCancelled, clearTimeout, close; the state is gone.
UnmountKlines ==
  /\ klineOpen
  /\ klineOpen' = FALSE
  /\ klineFetch' = FALSE
  /\ klines' = << >>
  /\ pendingLiveCandle' = << >>
  /\ liveUpdateTimer' = FALSE
  /\ UNCHANGED << klineArrivals, uncaught, depthVars, toast, engineVars >>
  /\ UNCHANGED << tickerVars, cacheVars, tradeVars, trackerVars >>

\* The response of fetchKlines arrives: setKlines(formattedKlines).
KlineResponse(data) ==
  /\ klineOpen
  /\ klineFetch
  /\ klineFetch' = FALSE
  /\ klines' = data
  /\ UNCHANGED << klineOpen, pendingLiveCandle, liveUpdateTimer, klineArrivals >>
  /\ UNCHANGED << uncaught, depthVars, toast, engineVars >>
  /\ UNCHANGED << tickerVars, cacheVars, tradeVars, trackerVars >>

\* wsRef.current.onmessage of the @kline stream, with data.k.
KlineMessage(msg) ==
  /\ klineOpen
  /\ klineArrivals < MaxKlineMsgs
  /\ klineArrivals' = klineArrivals + 1
  /\ IF msg.x
     THEN /\ liveUpdateTimer' = FALSE
          /\ pendingLiveCandle' = << >>
          /\ klines' = ApplyClosed(klines, msg.k)
     ELSE /\ pendingLiveCandle' = << msg.k >>
          /\ liveUpdateTimer' = TRUE
          /\ UNCHANGED klines
  /\ UNCHANGED << klineOpen, klineFetch, uncaught, depthVars, toast, engineVars >>
  /\ UNCHANGED << tickerVars, cacheVars, tradeVars, trackerVars >>

\* The 500 ms timeout callback.
KlineLiveFlush ==
  /\ liveUpdateTimer
  /\ liveUpdateTimer' = FALSE
  /\ IF pendingLiveCandle # << >>
     THEN /\ klines' = ApplyLive(klines, pendingLiveCandle[1])
          /\ pendingLiveCandle' = << >>
     ELSE UNCHANGED << klines, pendingLiveCandle >>
  /\ UNCHANGED << klineOpen, klineFetch, klineArrivals, uncaught, depthVars, toast, engineVars >>
  /\ UNCHANGED << tickerVars, cacheVars, tradeVars, trackerVars >>

\* @kline: JSON.parse(event.data) throws.
KlineMessageNotJson ==
  /\ klineOpen
  /\ klineArrivals < MaxKlineMsgs
  /\ klineArrivals' = klineArrivals + 1
  /\ uncaught' = Thrown("kline")
  /\ UNCHANGED << klineOpen, klineFetch, klines, pendingLiveCandle, liveUpdateTimer >>
  /\ UNCHANGED << depthVars, toast, engineVars, tickerVars, cacheVars, tradeVars, trackerVars >>

\* @kline: a JSON object without k: if (!data.k) return.
KlineMessageNoK ==
  /\ klineOpen
  /\ klineArrivals < MaxKlineMsgs
  /\ klineArrivals' = klineArrivals + 1
  /\ UNCHANGED << klineOpen, klineFetch, klines, pendingLiveCandle, liveUpdateTimer >>
  /\ UNCHANGED << uncaught, depthVars, toast, engineVars, tickerVars, cacheVars, tradeVars, trackerVars >>

(***************************************************************************)
(* useOrderBook.  An entry of a depth message is << price, amount >>, two  *)
(* decimal strings; parseFloat gives the nearest number.                   *)
(***************************************************************************)
DepthLimit == 2
MaxDepthEntries == 3
MaxDepthMsgs == 2

BidEntries == { << 100, 1 >>, << 99, 2 >> }
AskEntries == { << 101, 2 >>, << 102, 1 >> }
DepthMessages ==
  [b : SeqsUpTo(BidEntries, MaxDepthEntries), a : SeqsUpTo(AskEntries, MaxDepthEntries)]

parseFloat(text) == FInt(text)

\* [...q].reverse()
Reverse(q) == [i \in 1..Len(q) |-> q[Len(q) + 1 - i]]

\* total after the first n entries: total += amt * parseFloat(price)
RECURSIVE RunningTotal(_, _)
RunningTotal(entries, n) ==
  IF n = 0 THEN FZero
  ELSE FAdd[RunningTotal(entries, n - 1),
            FMul[parseFloat(entries[n][2]), parseFloat(entries[n][1])]]

\* Every entry of the message is published, not the first limit entries.
processEntriesMutantAll(entries, limit) ==
  [i \in 1..Len(entries) |->
     [price |-> parseFloat(entries[i][1]), amount |-> parseFloat(entries[i][2]),
      total |-> RunningTotal(entries, i)]]

\* processEntries: entries.slice(0, limit).map(...)
processEntries(entries, limit) ==
  [i \in 1..Len(SliceTo(entries, limit)) |->
     [price |-> parseFloat(entries[i][1]), amount |-> parseFloat(entries[i][2]),
      total |-> RunningTotal(entries, i)]]

MountDepth ==
  /\ ~depthOpen
  /\ depthOpen' = TRUE
  /\ pendingData' = << >>
  /\ depthTimer' = FALSE
  /\ bids' = << >>
  /\ asks' = << >>
  /\ lastDepth' = << >>
  /\ UNCHANGED << depthArrivals, uncaught, klineVars, toast, engineVars >>
  /\ UNCHANGED << tickerVars, cacheVars, tradeVars, trackerVars >>

\* Unmount: clearTimeout, close; the state is gone.
UnmountDepth ==
  /\ depthOpen
  /\ depthOpen' = FALSE
  /\ pendingData' = << >>
  /\ depthTimer' = FALSE
  /\ bids' = << >>
  /\ asks' = << >>
  /\ lastDepth' = << >>
  /\ UNCHANGED << depthArrivals, uncaught, klineVars, toast, engineVars >>
  /\ UNCHANGED << tickerVars, cacheVars, tradeVars, trackerVars >>

\* wsRef.current.onmessage of the @depth stream, with data.b and data.a.
DepthMessage(data) ==
  /\ depthOpen
  /\ depthArrivals < MaxDepthMsgs
  /\ depthArrivals' = depthArrivals + 1
  /\ pendingData' = << data >>
  /\ lastDepth' = << data >>
  /\ depthTimer' = TRUE
  /\ UNCHANGED << depthOpen, bids, asks, uncaught, klineVars, toast, engineVars >>
  /\ UNCHANGED << tickerVars, cacheVars, tradeVars, trackerVars >>

\* flush, the 250 ms timeout callback.
DepthFlush ==
  /\ depthTimer
  /\ depthTimer' = FALSE
  /\ IF pendingData = << >>
     THEN UNCHANGED << pendingData, bids, asks >>
     ELSE /\ pendingData' = << >>
          /\ bids' = processEntries(pendingData[1].b, DepthLimit)
          /\ asks' = Reverse(processEntries(pendingData[1].a, DepthLimit))
  /\ UNCHANGED << depthOpen, lastDepth, depthArrivals, uncaught, klineVars, toast, engineVars >>
  /\ UNCHANGED << tickerVars, cacheVars, tradeVars, trackerVars >>

\* @depth: JSON.parse(event.data) throws.
DepthMessageNotJson ==
  /\ depthOpen
  /\ depthArrivals < MaxDepthMsgs
  /\ depthArrivals' = depthArrivals + 1
  /\ uncaught' = Thrown("depth")
  /\ UNCHANGED << depthOpen, pendingData, depthTimer, bids, asks, lastDepth >>
  /\ UNCHANGED << klineVars, toast, engineVars, tickerVars, cacheVars, tradeVars, trackerVars >>

\* @depth: a JSON object without b or without a: if (!data.b || !data.a) return.
DepthMessageNoSides ==
  /\ depthOpen
  /\ depthArrivals < MaxDepthMsgs
  /\ depthArrivals' = depthArrivals + 1
  /\ UNCHANGED << depthOpen, pendingData, depthTimer, bids, asks, lastDepth >>
  /\ UNCHANGED << uncaught, klineVars, toast, engineVars, tickerVars, cacheVars, tradeVars, trackerVars >>

(***************************************************************************)
(* useMomentum: the fixed-count tracker.  A coin's prices array is an      *)
(* object: aliased says that it is the very array held in                  *)
(* priceBuffersRef.current[symbol], so that a push on that array is seen   *)
(* through the coin as well.  activeFolderId is only ever written and is   *)
(* left out.  Handlers run between renders, so the folders that            *)
(* toggleCalculation closes over are the current ones.                     *)
(***************************************************************************)
Without(m, k) == [x \in (DOMAIN m) \ {k} |-> m[x]]

Merge(m, n) == [x \in (DOMAIN m) \cup (DOMAIN n) |-> IF x \in DOMAIN n THEN n[x] ELSE m[x]]

\* array.slice(-n), n >= 1
LastN(q, n) == IF Len(q) <= n THEN q ELSE SubSeq(q, Len(q) - n + 1, Len(q))

\* JSON.stringify(folders): every own field of every folder and coin.
StringifyCoin(coin) ==
  [symbol |-> coin.symbol, prices |-> coin.prices, momentum |-> coin.momentum,
   velocity |-> coin.velocity, rSquared |-> coin.rSquared,
   lastUpdate |-> coin.lastUpdate, addedAt |-> coin.addedAt]

StringifyFolder(f) ==
  [id |-> f.id, name |-> f.name, coins |-> [j \in 1..Len(f.coins) |-> StringifyCoin(f.coins[j])],
   windowSize |-> f.windowSize, interval |-> f.interval,
   createdAt |-> f.createdAt, isActive |-> f.isActive]

StringifyFolders(fs) == [i \in 1..Len(fs) |-> StringifyFolder(fs[i])]

\* JSON.parse(saved): fresh objects, so no array is the buffer of a symbol.
ParseCoin(j) ==
  [symbol |-> j.symbol, prices |-> j.prices, momentum |-> j.momentum,
   velocity |-> j.velocity, rSquared |-> j.rSquared,
   lastUpdate |-> j.lastUpdate, addedAt |-> j.addedAt, aliased |-> FALSE]

ParseFolder(j) ==
  [id |-> j.id, name |-> j.name, coins |-> [k \in 1..Len(j.coins) |-> ParseCoin(j.coins[k])],
   windowSize |-> j.windowSize, interval |-> j.interval,
   createdAt |-> j.createdAt, isActive |-> j.isActive]

ParseFolders(js) == [i \in 1..Len(js) |-> ParseFolder(js[i])]

FolderIds(fs) == { fs[i].id : i \in DOMAIN fs }

\* folders.find(f => f.id === folderId)
FindFolder(fs, folderId) ==
  fs[CHOOSE i \in DOMAIN fs : fs[i].id = folderId /\ \A k \in 1..(i - 1) : fs[k].id # folderId]

HasCoin(f, symbol) == \E j \in DOMAIN f.coins : f.coins[j].symbol = symbol

TimerCount(timers, id) == IF id \in DOMAIN timers THEN timers[id] ELSE 0

\* setInterval(..) with the folder id captured
SetIntervalFor(timers, id) == Put(timers, id, TimerCount(timers, id) + 1)

\* clearInterval(handle) of a scheduled timer of that folder id
ClearIntervalFor(timers, id) ==
  IF TimerCount(timers, id) <= 1 THEN Without(timers, id)
  ELSE Put(timers, id, timers[id] - 1)

\* Date.now() advances, in steps of one second.
ClockStep == 1000

AdvanceClock ==
  /\ now < MaxClock * ClockStep
  /\ now' = now + ClockStep
  /\ UNCHANGED << tickerVars, cacheVars, tradeVars, momentumVars, liveVars, restVars >>

addFolder(name, windowSize, interval) ==
  /\ folders' = Append(folders,
       [id |-> ToString(now), name |-> name, coins |-> << >>,
        windowSize |-> windowSize, interval |-> interval,
        createdAt |-> now, isActive |-> FALSE])
  /\ momentumStorage' = StringifyFolders(folders')
  /\ UNCHANGED << results, intervalsRef, intervalTimers, priceBuffersRef, activePricesRef >>
  /\ UNCHANGED << tickerVars, cacheVars, tradeVars, now, liveVars, feedVars, engineVars >>

\* A removal that forgets the interval of the folder.
removeFolderMutantKeepTimer(id) ==
  /\ folders' = SelectSeq(folders, LAMBDA f : f.id # id)
  /\ results' = Without(results, id)
  /\ momentumStorage' = StringifyFolders(folders')
  /\ UNCHANGED << intervalTimers, intervalsRef, priceBuffersRef, activePricesRef >>
  /\ UNCHANGED << tickerVars, cacheVars, tradeVars, now, liveVars, restVars >>

removeFolder(id) ==
  /\ IF id \in intervalsRef
       THEN /\ intervalTimers' = ClearIntervalFor(intervalTimers, id)
            /\ intervalsRef' = intervalsRef \ {id}
       ELSE UNCHANGED << intervalTimers, intervalsRef >>
  /\ folders' = SelectSeq(folders, LAMBDA f : f.id # id)
  /\ results' = Without(results, id)
  /\ momentumStorage' = StringifyFolders(folders')
  /\ UNCHANGED << priceBuffersRef, activePricesRef >>
  /\ UNCHANGED << tickerVars, cacheVars, tradeVars, now, liveVars, restVars >>

NewMomentumCoin(symbol, currentPrice, t) ==
  [symbol |-> symbol, prices |-> << currentPrice >>, momentum |-> FZero,
   velocity |-> FZero, rSquared |-> FZero, lastUpdate |-> t, addedAt |-> t,
   aliased |-> FALSE]

addCoinToFolder(folderId, symbol, currentPrice) ==
  LET added(f) == f.id = folderId /\ ~HasCoin(f, symbol)
  IN  /\ folders' = [i \in DOMAIN folders |->
           IF added(folders[i])
             THEN [folders[i] EXCEPT !.coins = Append(@, NewMomentumCoin(symbol, currentPrice, now))]
             ELSE folders[i]]
      /\ priceBuffersRef' =
           IF (\E i \in DOMAIN folders : added(folders[i])) /\ symbol \notin DOMAIN priceBuffersRef
             THEN Put(priceBuffersRef, symbol, << currentPrice >>)
             ELSE priceBuffersRef
      /\ momentumStorage' = StringifyFolders(folders')
      /\ UNCHANGED << results, intervalsRef, intervalTimers, activePricesRef >>
      /\ UNCHANGED << tickerVars, cacheVars, tradeVars, now, liveVars, feedVars, engineVars >>

\* delete priceBuffersRef.current[symbol]: no coin's array is that buffer any more
Unaliased(fs, symbol) ==
  [i \in DOMAIN fs |-> [fs[i] EXCEPT !.coins =
     [j \in DOMAIN fs[i].coins |->
        IF fs[i].coins[j].symbol = symbol
          THEN [fs[i].coins[j] EXCEPT !.aliased = FALSE]
          ELSE fs[i].coins[j]]]]

removeCoinFromFolder(folderId, symbol) ==
  LET filtered == [i \in DOMAIN folders |->
        IF folders[i].id = folderId
          THEN [folders[i] EXCEPT !.coins = SelectSeq(@, LAMBDA c : c.symbol # symbol)]
          ELSE folders[i]]
  IN  /\ folders' = Unaliased(filtered, symbol)
      /\ priceBuffersRef' = Without(priceBuffersRef, symbol)
      /\ momentumStorage' = StringifyFolders(folders')
      /\ UNCHANGED << results, intervalsRef, intervalTimers, activePricesRef >>
      /\ UNCHANGED << tickerVars, cacheVars, tradeVars, now, liveVars, restVars >>

\* One pass of f.coins.map(coin => ..) of updatePrices over coin ci of folder fi.
\* st: the folders as they stand (objects of prev included), the buffers and
\* updatedCoinsData.
UpdateCoin(st, fi, ci, prices, t) ==
  LET f == st.folders[fi]
      coin == f.coins[ci]
      sym == coin.symbol
      currentPrice == IF sym \in DOMAIN prices THEN prices[sym] ELSE 0
      hasBuffer == sym \in DOMAIN st.buffers
      \* buffer.push(currentPrice), in place
      pushed == (IF hasBuffer THEN st.buffers[sym] ELSE << >>) \o << currentPrice >>
      \* buffer = buffer.slice(-f.windowSize), a new array
      sliced == Len(pushed) > f.windowSize
      buffer == IF sliced THEN LastN(pushed, f.windowSize) ELSE pushed
      m == calculateMomentum(buffer)
      seen(c) == IF c.symbol = sym /\ c.aliased
                   THEN [c EXCEPT !.prices = pushed, !.aliased = ~sliced]
                   ELSE c
      afterPush == [i \in DOMAIN st.folders |->
                      [st.folders[i] EXCEPT !.coins =
                         [j \in 1..Len(st.folders[i].coins) |-> seen(st.folders[i].coins[j])]]]
      updated == Merge([coin EXCEPT !.prices = buffer, !.lastUpdate = t, !.aliased = TRUE], m)
  IN  IF currentPrice = 0 THEN st
      ELSE [folders |-> [afterPush EXCEPT ![fi].coins[ci] = updated],
            buffers |-> Put(st.buffers, sym, buffer),
            data |-> Append(st.data,
                       Merge([symbol |-> sym, currentPrice |-> currentPrice], m))]

\* The passes are chained through next, the state left by the pass before.
RECURSIVE UpdateCoins(_, _, _, _, _)
UpdateCoins(st, fi, ci, prices, t) ==
  IF ci > Len(st.folders[fi].coins) THEN st
  ELSE CHOOSE r \in { UpdateCoins(next, fi, ci + 1, prices, t) :
                      next \in { UpdateCoin(st, fi, ci, prices, t) } } : TRUE

RECURSIVE UpdateFolders(_, _, _, _, _)
UpdateFolders(st, fi, folderId, prices, t) ==
  IF fi > Len(st.folders) THEN st
  ELSE IF st.folders[fi].id = folderId
         THEN CHOOSE r \in { UpdateFolders(next, fi + 1, folderId, prices, t) :
                             next \in { UpdateCoins(st, fi, 1, prices, t) } } : TRUE
         ELSE UpdateFolders(st, fi + 1, folderId, prices, t)

FolderResults(data) ==
  [i \in 1..Len(data) |->
     [symbol |-> data[i].symbol, momentum |-> data[i].momentum,
      velocity |-> data[i].velocity, rSquared |-> data[i].rSquared,
      currentPrice |-> data[i].currentPrice,
      trend |-> getTrendState(data[i].momentum, data[i].rSquared)]]

\* updatePrices(folderId, prices): the new folders, buffers and results.
updatePrices(fs, buffers, res, folderId, prices, t) ==
  LET st == UpdateFolders([folders |-> fs, buffers |-> buffers, data |-> << >>],
                          1, folderId, prices, t)
  IN  [folders |-> st.folders,
       buffers |-> st.buffers,
       results |-> IF Len(st.data) > 0 THEN Put(res, folderId, FolderResults(st.data)) ELSE res]

SetActive(fs, folderId, active) ==
  [i \in DOMAIN fs |-> IF fs[i].id = folderId THEN [fs[i] EXCEPT !.isActive = active] ELSE fs[i]]

\* The component's effect on coins: pricesRef.current[c.symbol] = c.price for
\* the listed coins, then setActivePrices(pricesRef.current).
setActivePrices(prices) ==
  /\ activePricesRef' = Merge(activePricesRef, prices)
  /\ UNCHANGED << folders, results, intervalsRef, intervalTimers, priceBuffersRef,
                  momentumStorage >>
  /\ UNCHANGED << tickerVars, cacheVars, tradeVars, now, liveVars, restVars >>

\* toggleCalculation(folderId, pricesRef.current)
toggleCalculation(folderId) ==
  /\ folderId \in FolderIds(folders)
  /\ IF FindFolder(folders, folderId).isActive
       THEN /\ IF folderId \in intervalsRef
                 THEN /\ intervalTimers' = ClearIntervalFor(intervalTimers, folderId)
                      /\ intervalsRef' = intervalsRef \ {folderId}
                 ELSE UNCHANGED << intervalTimers, intervalsRef >>
            /\ folders' = SetActive(folders, folderId, FALSE)
            /\ UNCHANGED << results, priceBuffersRef >>
       ELSE \E u \in { updatePrices(folders, priceBuffersRef, results, folderId,
                                    activePricesRef, now) } :
                /\ intervalTimers' = SetIntervalFor(intervalTimers, folderId)
                /\ intervalsRef' = intervalsRef \cup {folderId}
                /\ folders' = SetActive(u.folders, folderId, TRUE)
                /\ priceBuffersRef' = u.buffers
                /\ results' = u.results
  /\ momentumStorage' = StringifyFolders(folders')
  /\ UNCHANGED activePricesRef
  /\ UNCHANGED << tickerVars, cacheVars, tradeVars, now, liveVars, feedVars, engineVars >>

\* The interval callback: updatePricesRef.current(folderId, activePricesRef.current)
IntervalTick(folderId) ==
  /\ TimerCount(intervalTimers, folderId) > 0
  /\ \E u \in { updatePrices(folders, priceBuffersRef, results, folderId,
                             activePricesRef, now) } :
         /\ folders' = u.folders
         /\ priceBuffersRef' = u.buffers
         /\ results' = u.results
  /\ momentumStorage' = StringifyFolders(folders')
  /\ UNCHANGED << intervalsRef, intervalTimers, activePricesRef >>
  /\ UNCHANGED << tickerVars, cacheVars, tradeVars, now, liveVars, restVars >>

\* The page is loaded again: every timer and ref of the old page is gone and
\* the folders state is read back from localStorage.
ReloadMomentum ==
  /\ folders' = ParseFolders(momentumStorage)
  /\ results' = EmptyMap
  /\ intervalsRef' = {}
  /\ intervalTimers' = EmptyMap
  /\ priceBuffersRef' = EmptyMap
  /\ activePricesRef' = EmptyMap
  /\ momentumStorage' = StringifyFolders(folders')
  /\ toast' = NoToast
  /\ UNCHANGED << tickerVars, cacheVars, tradeVars, now, liveVars, feedVars, engineVars >>

(***************************************************************************)
(* MomentumTracker: the handlers of the fixed-count tracker's component.   *)
(* toast is the last toast shown: its kind and which message it is.        *)
(***************************************************************************)
MomentumFolderLimit == 7

\* Everything but the toast is left as it is: the early returns of a handler.
OnlyToast(t) ==
  /\ toast' = t
  /\ UNCHANGED << tickerVars, cacheVars, tradeVars, trackerVars, feedVars, engineVars >>

\* A handler without the check of the maximum.
handleCreateFolderMutantNoLimit(newFolderName, selectedWindowSize, selectedInterval) ==
  IF newFolderName = "" THEN OnlyToast(Toast("error", "name"))
  ELSE /\ addFolder(newFolderName, selectedWindowSize, selectedInterval)
       /\ toast' = Toast("success", "created")

handleCreateFolder(newFolderName, selectedWindowSize, selectedInterval) ==
  IF newFolderName = "" THEN OnlyToast(Toast("error", "name"))
  ELSE IF Len(folders) >= MomentumFolderLimit THEN OnlyToast(Toast("error", "max"))
  ELSE /\ addFolder(newFolderName, selectedWindowSize, selectedInterval)
       /\ toast' = Toast("success", "created")

\* [...folderResults].sort((a, b) => b.momentum - a.momentum): a stable
\* sort, as an insertion from the left.
RECURSIVE SortedByMomentum(_)
SortedByMomentum(rs) ==
  IF rs = << >> THEN << >>
  ELSE LET front == SortedByMomentum(SubSeq(rs, 1, Len(rs) - 1))
           r == rs[Len(rs)]
           keep == { k \in 0..Len(front) :
                       \A i \in 1..k : ~FLess(front[i].momentum, r.momentum) }
           k == CHOOSE n \in keep : \A o \in keep : o <= n
       IN  SubSeq(front, 1, k) \o << r >> \o SubSeq(front, k + 1, Len(front))

\* results[folderId] || [], sorted
getSortedResults(res, folderId) ==
  SortedByMomentum(IF folderId \in DOMAIN res THEN res[folderId] ELSE << >>)

\* price is pricesRef.current[selectedCoin], the map handed to setActivePrices
handleAddCoin(folderId, selectedCoin) ==
  IF selectedCoin = << >> THEN OnlyToast(Toast("error", "coin"))
  ELSE IF selectedCoin \notin DOMAIN activePricesRef \/ activePricesRef[selectedCoin] = 0
  THEN OnlyToast(Toast("error", "price"))
  ELSE /\ addCoinToFolder(folderId, selectedCoin, activePricesRef[selectedCoin])
       /\ toast' = Toast("success", "added")

\* folders.find is on the folders of the render, before the toggle
handleToggleCalculation(folderId) ==
  /\ toggleCalculation(folderId)
  /\ toast' = IF FindFolder(folders, folderId).isActive
              THEN Toast("info", "stopped") ELSE Toast("success", "started")

(***************************************************************************)
(* useLiveMomentum: the fixed-duration tracker.  A localStorage item is    *)
(* << >> when absent and << value >> when present.                         *)
(***************************************************************************)
\* same statements as calculateMomentum, on priceData.map(d => d.price)
calculateLinearRegressionMomentum(priceData) ==
  calculateMomentum([i \in 1..Len(priceData) |-> priceData[i].price])

\* calculateMomentum is called on the price sequence.
ApplyCalculateMomentum ==
  /\ engineOutput = << >>
  /\ engineOutput' = << calculateMomentum(engineInput) >>
  /\ UNCHANGED << engineInput, liveEngineOutput, lastCall, throttleVars >>
  /\ UNCHANGED << tickerVars, cacheVars, tradeVars, trackerVars, feedVars, toast >>

\* calculateLinearRegressionMomentum is called on the same prices, one
\* sample a second.
ApplyLinearRegressionMomentum ==
  /\ liveEngineOutput = << >>
  /\ liveEngineOutput' = << calculateLinearRegressionMomentum(
       [i \in 1..Len(engineInput) |-> [price |-> engineInput[i], timestamp |-> i * ClockStep]]) >>
  /\ UNCHANGED << engineInput, engineOutput, lastCall, throttleVars >>
  /\ UNCHANGED << tickerVars, cacheVars, tradeVars, trackerVars, feedVars, toast >>

\* getTrendState of useLiveMomentum: thresholds 0.0001 and 0.001, floor 0.2.
liveGetTrendState(momentum, rSquared) ==
  LET threshold == FLit(1, 10000)
      strongThreshold == FLit(1, 1000)
  IN  IF FLess(rSquared, FLit(2, 10)) THEN "FLAT"
      ELSE IF FLess(strongThreshold, momentum) THEN "STRONG_UP"
      ELSE IF FLess(threshold, momentum) THEN "UP"
      ELSE IF FLess(momentum, FNeg(strongThreshold)) THEN "STRONG_DOWN"
      ELSE IF FLess(momentum, FNeg(threshold)) THEN "DOWN"
      ELSE "FLAT"

\* The trend badge of a coin's row in LiveMomentumTracker, computed inline
\* from coin.momentum alone.
LiveRowTrend(coin) ==
  IF FLess(FLit(1, 1000), coin.momentum) THEN "STRONG_UP"
  ELSE IF FLess(FLit(1, 10000), coin.momentum) THEN "UP"
  ELSE IF FLess(coin.momentum, FNeg(FLit(1, 1000))) THEN "STRONG_DOWN"
  ELSE IF FLess(coin.momentum, FNeg(FLit(1, 10000))) THEN "DOWN"
  ELSE "FLAT"

\* A save that writes the symbols of a folder in reverse order.
SaveMutantReversed(fs) ==
  [i \in 1..Len(fs) |->
     [id |-> fs[i].id, name |-> fs[i].name,
      coinSymbols |-> [j \in 1..Len(fs[i].coins) |->
                         fs[i].coins[Len(fs[i].coins) + 1 - j].symbol],
      timeWindow |-> fs[i].timeWindow, createdAt |-> fs[i].createdAt]]

\* saveFoldersToStorage(folders): the value of 'liveMomentumFolders_v2'
saveFoldersToStorage(fs) ==
  [i \in 1..Len(fs) |->
     [id |-> fs[i].id, name |-> fs[i].name,
      coinSymbols |-> [j \in 1..Len(fs[i].coins) |-> fs[i].coins[j].symbol],
      timeWindow |-> fs[i].timeWindow, createdAt |-> fs[i].createdAt]]

LoadedCoin(symbol) ==
  [symbol |-> symbol, prices |-> << >>, momentum |-> FZero, velocity |-> FZero,
   rSquared |-> FZero, currentPrice |-> 0, lastUpdate |-> 0]

\* A migration that keeps the price history of the coins.
MigratedCoinMutantKeepPrices(c) ==
  [c EXCEPT !.momentum = FZero, !.velocity = FZero, !.rSquared = FZero]

MigratedCoin(c) ==
  [c EXCEPT !.prices = << >>, !.momentum = FZero, !.velocity = FZero, !.rSquared = FZero]

\* loadFoldersFromStorage(): the folders returned and what is left of the
\* old item.
loadFoldersFromStorage(saved, oldSaved) ==
  IF saved = << >>
    THEN IF oldSaved # << >>
           THEN [folders |-> [i \in 1..Len(oldSaved[1]) |->
                                [oldSaved[1][i] EXCEPT !.coins =
                                   [j \in 1..Len(oldSaved[1][i].coins) |->
                                      MigratedCoin(oldSaved[1][i].coins[j])]]],
                 oldSaved |-> << >>]
           ELSE [folders |-> << >>, oldSaved |-> oldSaved]
    ELSE [folders |-> [i \in 1..Len(saved[1]) |->
                         [id |-> saved[1][i].id, name |-> saved[1][i].name,
                          timeWindow |-> saved[1][i].timeWindow,
                          createdAt |-> saved[1][i].createdAt,
                          coins |-> [j \in 1..Len(saved[1][i].coinSymbols) |->
                                      LoadedCoin(saved[1][i].coinSymbols[j])]]],
          oldSaved |-> oldSaved]

\* Every new folders value re-runs the save effect: the timeout is set again.
liveAddFolder(name, timeWindow) ==
  /\ liveFolders' = Append(liveFolders,
       [id |-> ToString(now), name |-> name, coins |-> << >>,
        timeWindow |-> timeWindow, createdAt |-> now])
  /\ saveTimeoutRef' = TRUE
  /\ UNCHANGED << liveStorageV2, liveStorageOld >>
  /\ UNCHANGED << tickerVars, cacheVars, tradeVars, now, momentumVars, feedVars, engineVars >>

liveRemoveFolder(id) ==
  /\ liveFolders' = SelectSeq(liveFolders, LAMBDA f : f.id # id)
  /\ saveTimeoutRef' = TRUE
  /\ UNCHANGED << liveStorageV2, liveStorageOld >>
  /\ UNCHANGED << tickerVars, cacheVars, tradeVars, now, momentumVars, restVars >>

NewLiveCoin(symbol, currentPrice, t) ==
  [symbol |-> symbol, prices |-> << [price |-> currentPrice, timestamp |-> t] >>,
   momentum |-> FZero, velocity |-> FZero, rSquared |-> FZero,
   currentPrice |-> currentPrice, lastUpdate |-> t]

liveAddCoinToFolder(folderId, symbol, currentPrice) ==
  /\ liveFolders' = [i \in DOMAIN liveFolders |->
       IF liveFolders[i].id = folderId /\ ~HasCoin(liveFolders[i], symbol)
         THEN [liveFolders[i] EXCEPT !.coins = Append(@, NewLiveCoin(symbol, currentPrice, now))]
         ELSE liveFolders[i]]
  /\ saveTimeoutRef' = TRUE
  /\ UNCHANGED << liveStorageV2, liveStorageOld >>
  /\ UNCHANGED << tickerVars, cacheVars, tradeVars, now, momentumVars, feedVars, engineVars >>

liveRemoveCoinFromFolder(folderId, symbol) ==
  /\ liveFolders' = [i \in DOMAIN liveFolders |->
       IF liveFolders[i].id = folderId
         THEN [liveFolders[i] EXCEPT !.coins = SelectSeq(@, LAMBDA c : c.symbol # symbol)]
         ELSE liveFolders[i]]
  /\ saveTimeoutRef' = TRUE
  /\ UNCHANGED << liveStorageV2, liveStorageOld >>
  /\ UNCHANGED << tickerVars, cacheVars, tradeVars, now, momentumVars, restVars >>

\* An update that appends a sample also when the price did not change.
UpdatedLiveCoinMutantNoSkip(coin, timeWindow, prices, t) ==
  LET currentPrice == IF coin.symbol \in DOMAIN prices THEN prices[coin.symbol] ELSE 0
      newPriceData == [price |-> currentPrice, timestamp |-> t]
      cutoffTime == t - (timeWindow * 1000)
      updatedPrices == SelectSeq(Append(coin.prices, newPriceData),
                                 LAMBDA d : d.timestamp >= cutoffTime)
  IN  IF currentPrice = 0 THEN coin
      ELSE Merge([coin EXCEPT !.prices = updatedPrices, !.currentPrice = currentPrice,
                              !.lastUpdate = t],
                 calculateLinearRegressionMomentum(updatedPrices))

\* One coin of the folder in updateAllPrices.
UpdatedLiveCoin(coin, timeWindow, prices, t) ==
  LET currentPrice == IF coin.symbol \in DOMAIN prices THEN prices[coin.symbol] ELSE 0
      newPriceData == [price |-> currentPrice, timestamp |-> t]
      cutoffTime == t - (timeWindow * 1000)
      updatedPrices == SelectSeq(Append(coin.prices, newPriceData),
                                 LAMBDA d : d.timestamp >= cutoffTime)
  IN  IF currentPrice = 0 THEN coin
      ELSE IF coin.currentPrice = currentPrice /\ Len(coin.prices) > 0 THEN coin
      ELSE Merge([coin EXCEPT !.prices = updatedPrices, !.currentPrice = currentPrice,
                              !.lastUpdate = t],
                 calculateLinearRegressionMomentum(updatedPrices))

\* updateAllPrices returns prev, and nothing re-renders, when the folder is
\* missing or empty or no coin of it has a price.
UpdateApplies(fs, folderId, prices) ==
  /\ folderId \in FolderIds(fs)
  /\ Len(FindFolder(fs, folderId).coins) > 0
  /\ \E j \in DOMAIN FindFolder(fs, folderId).coins :
       FindFolder(fs, folderId).coins[j].symbol \in DOMAIN prices

\* the value the setFolders updater of updateAllPrices returns at time t
UpdatedLiveFolders(fs, folderId, prices, t) ==
  IF ~UpdateApplies(fs, folderId, prices) THEN fs
  ELSE [i \in DOMAIN fs |->
          IF fs[i].id # folderId THEN fs[i]
          ELSE [fs[i] EXCEPT !.coins =
                  [j \in DOMAIN fs[i].coins |->
                     UpdatedLiveCoin(fs[i].coins[j], fs[i].timeWindow, prices, t)]]]

UpdateAllPricesOn(folderId, prices) ==
  /\ UpdateApplies(liveFolders, folderId, prices)
  /\ \A i \in DOMAIN liveFolders : \A j \in DOMAIN liveFolders[i].coins :
       Len(liveFolders[i].coins[j].prices) < MaxSamples
  /\ liveFolders' = UpdatedLiveFolders(liveFolders, folderId, prices, now)
  /\ saveTimeoutRef' = TRUE
  /\ UNCHANGED << liveStorageV2, liveStorageOld >>
  /\ UNCHANGED << tickerVars, cacheVars, tradeVars, now, momentumVars, feedVars, toast >>

updateAllPrices(folderId, prices) ==
  /\ UpdateAllPricesOn(folderId, prices)
  /\ UNCHANGED engineVars

\* The same call, with its arguments and the folders before it kept.
ObservedUpdateAllPrices(folderId, prices) ==
  /\ UpdateAllPricesOn(folderId, prices)
  /\ lastCall' = << [folderId |-> folderId, prices |-> prices, at |-> now,
                     before |-> liveFolders] >>
  /\ UNCHANGED << engineInput, engineOutput, liveEngineOutput, throttleVars >>

\* The debounced save fires, two seconds after the last change of folders.
SaveTimeout ==
  /\ saveTimeoutRef
  /\ saveTimeoutRef' = FALSE
  /\ liveStorageV2' = << saveFoldersToStorage(liveFolders) >>
  /\ UNCHANGED << liveFolders, liveStorageOld >>
  /\ UNCHANGED << tickerVars, cacheVars, tradeVars, now, momentumVars, restVars >>

\* The page is loaded again: a pending save is lost, the folders are read
\* back and the save effect of the new page is scheduled.
ReloadLive ==
  /\ \E l \in { loadFoldersFromStorage(liveStorageV2, liveStorageOld) } :
       /\ liveFolders' = l.folders
       /\ liveStorageOld' = l.oldSaved
  /\ saveTimeoutRef' = TRUE
  /\ toast' = NoToast
  /\ UNCHANGED liveStorageV2
  /\ UNCHANGED << tickerVars, cacheVars, tradeVars, now, momentumVars, feedVars, engineVars >>

(***************************************************************************)
(* LiveMomentumTracker: the handlers of the fixed-duration tracker's       *)
(* component.                                                              *)
(***************************************************************************)
LiveFolderLimit == 10

liveHandleCreateFolder(newFolderName, selectedTimeWindow) ==
  IF newFolderName = "" THEN OnlyToast(Toast("error", "name"))
  ELSE IF Len(liveFolders) >= LiveFolderLimit THEN OnlyToast(Toast("error", "max"))
  ELSE /\ liveAddFolder(newFolderName, selectedTimeWindow)
       /\ toast' = Toast("success", "created")

\* price is pricesRef.current[selectedCoin]: 0 stands for a missing entry
liveHandleAddCoin(selectedFolderId, selectedCoin, price) ==
  IF selectedCoin = << >> \/ selectedFolderId = "" THEN OnlyToast(Toast("error", "coin"))
  ELSE IF price = 0 THEN OnlyToast(Toast("error", "price"))
  ELSE /\ liveAddCoinToFolder(selectedFolderId, selectedCoin, price)
       /\ toast' = Toast("success", "added")

(***************************************************************************)
(* Specifications                                                          *)
(***************************************************************************)
\* Feeds closed and idle, no toast shown.
RestInit ==
  /\ uncaught = {}
  /\ klineOpen = FALSE
  /\ klineFetch = FALSE
  /\ klines = << >>
  /\ pendingLiveCandle = << >>
  /\ liveUpdateTimer = FALSE
  /\ klineArrivals = 0
  /\ depthOpen = FALSE
  /\ pendingData = << >>
  /\ depthTimer = FALSE
  /\ bids = << >>
  /\ asks = << >>
  /\ lastDepth = << >>
  /\ depthArrivals = 0
  /\ toast = NoToast

\* Nothing is mounted, no folder exists and nothing is stored.
ProgramInit ==
  /\ mounted = [c \in Consumers |-> FALSE]
  /\ period = [c \in Consumers |-> "24h"]
  /\ wsOpen = [c \in Consumers |-> FALSE]
  /\ pendingUpdatesRef = [c \in Consumers |-> EmptyMap]
  /\ throttleTimerRef = [c \in Consumers |-> "null"]
  /\ flushTimers = [c \in Consumers |-> 0]
  /\ coins = [c \in Consumers |-> EmptyMap]
  /\ fetchLive = [c \in Consumers |-> NoFetch]
  /\ staleFetches = [c \in Consumers |-> 0]
  /\ lastMsg = [c \in Consumers |-> EmptyMap]
  /\ coalesce = [c \in Consumers |-> "none"]
  /\ sharedPriceCache = EmptyMap
  /\ priceListeners = {}
  /\ hookSymbol = [l \in Listeners |-> << >>]
  /\ hookPrice = [l \in Listeners |-> 0]
  /\ lastTicker = EmptyMap
  /\ tradeSymbol = << >>
  /\ pendingTrades = << >>
  /\ tradeTimer = FALSE
  /\ trades = << >>
  /\ arrivals = 0
  /\ delivered = {}
  /\ now = ClockStep
  /\ folders = << >>
  /\ results = EmptyMap
  /\ intervalsRef = {}
  /\ intervalTimers = EmptyMap
  /\ priceBuffersRef = EmptyMap
  /\ activePricesRef = EmptyMap
  /\ momentumStorage = << >>
  /\ liveFolders = << >>
  /\ saveTimeoutRef = TRUE
  /\ liveStorageV2 = << >>
  /\ liveStorageOld = << >>
  /\ RestInit

\* No call of a regression engine is under observation.
(***************************************************************************)
(* LiveMomentumTracker: the effect on coins that feeds updateAllPrices, at *)
(* most one round a second.  Times are milliseconds.                       *)
(***************************************************************************)
ThrottleInterval == 1000

\* A throttle that lets a round through half a second after the last one.
MayUpdateNowMutantHalf(t, last) == 2 * (t - last) >= ThrottleInterval

\* the clock of the tracker moves in half intervals
ThrottleStep == ThrottleInterval \div 2

\* timeSinceLastUpdate >= 1000
MayUpdateNow(t, last) == t - last >= ThrottleInterval

\* foldersRef.current.forEach(folder => ..): the calls of one round, chained;
\* list is foldersRef.current and fs the folders the next updater receives.
RECURSIVE RoundFolders(_, _, _, _, _)
RoundFolders(fs, list, k, prices, t) ==
  IF k > Len(list) THEN fs
  ELSE CHOOSE r \in { RoundFolders(next, list, k + 1, prices, t) :
                      next \in { IF Len(list[k].coins) > 0
                                   THEN UpdatedLiveFolders(fs, list[k].id, prices, t)
                                   ELSE fs } } : TRUE

\* doUpdate of the effect run that saw currentPrices, the change-th coins
doUpdate(currentPrices, change) ==
  /\ lastUpdateRef' = now
  /\ roundLog' = LastN(Append(roundLog, [at |-> now, prices |-> currentPrices,
                                         change |-> change]), 2)
  /\ liveFolders' = RoundFolders(liveFolders, liveFolders, 1, currentPrices, now)
  /\ saveTimeoutRef' =
       (saveTimeoutRef \/ \E i \in DOMAIN liveFolders :
                            /\ Len(liveFolders[i].coins) > 0
                            /\ UpdateApplies(liveFolders, liveFolders[i].id, currentPrices))

\* coins changed: the cleanup of the last run clears its timeout, then the
\* effect runs on the new coins (never empty once the tickers arrived).
CoinsChange(snapshot) ==
  /\ snapshotChanges < MaxSnapshots
  /\ \A i \in DOMAIN liveFolders : \A j \in DOMAIN liveFolders[i].coins :
       Len(liveFolders[i].coins[j].prices) < MaxSamples
  /\ coinsSnapshot' = snapshot
  /\ snapshotChanges' = snapshotChanges + 1
  /\ IF MayUpdateNow(now, lastUpdateRef)
       THEN /\ doUpdate(snapshot, snapshotChanges')
            /\ updateTimer' = << >>
       ELSE /\ updateTimer' = << [due |-> now + (ThrottleInterval - (now - lastUpdateRef)),
                                  currentPrices |-> snapshot,
                                  change |-> snapshotChanges'] >>
            /\ UNCHANGED << lastUpdateRef, roundLog, liveFolders, saveTimeoutRef >>
  /\ UNCHANGED << liveStorageV2, liveStorageOld, now, momentumVars >>
  /\ UNCHANGED << tickerVars, cacheVars, tradeVars, feedVars, toast >>
  /\ UNCHANGED << engineInput, engineOutput, liveEngineOutput, lastCall >>

\* The timeout fires, at its time or later.
UpdateTimerFires ==
  /\ updateTimer # << >>
  /\ updateTimer[1].due <= now
  /\ doUpdate(updateTimer[1].currentPrices, updateTimer[1].change)
  /\ updateTimer' = << >>
  /\ UNCHANGED << coinsSnapshot, snapshotChanges >>
  /\ UNCHANGED << liveStorageV2, liveStorageOld, now, momentumVars >>
  /\ UNCHANGED << tickerVars, cacheVars, tradeVars, feedVars, toast >>
  /\ UNCHANGED << engineInput, engineOutput, liveEngineOutput, lastCall >>

\* Half a second passes: until the end of the observed time, and after it
\* for as long as a timeout is waiting for its time.
ThrottleClock ==
  /\ \/ now < ClockStep + MaxThrottleSteps * ThrottleStep
     \/ updateTimer # << >> /\ now < updateTimer[1].due
  /\ now' = now + ThrottleStep
  /\ UNCHANGED << tickerVars, cacheVars, tradeVars, momentumVars, liveVars, restVars >>

\* LiveMomentumTracker before the first coins arrive
ThrottleIdle ==
  /\ coinsSnapshot = EmptyMap
  /\ lastUpdateRef = 0
  /\ updateTimer = << >>
  /\ roundLog = << >>
  /\ snapshotChanges = 0

EngineIdle ==
  /\ engineInput = << >>
  /\ engineOutput = << >>
  /\ liveEngineOutput = << >>
  /\ lastCall = << >>
  /\ ThrottleIdle

Init == ProgramInit /\ EngineIdle

\* One consumer of the ticker projection, every message and snapshot.
TickerNext ==
  \/ MountTickers("c1")
  \/ UnmountTickers("c1")
  \/ \E p \in Periods : PeriodChange("c1", p)
  \/ \E m \in TickerMessages : TickerMessage("c1", m)
  \/ TickerFlush("c1")
  \/ \E d \in RestSnapshots : RestResponse("c1", d)
  \/ PriceChangesDone("c1")
  \/ \E d \in RestSnapshots : StaleRestResponse("c1", d)
  \/ RestFail("c1")
  \/ \E l \in Listeners, sym \in CoinSymbols : MountPrice(l, sym)
  \/ \E l \in Listeners : UnmountPrice(l)

TickerSpec == Init /\ [][TickerNext]_vars


\* Two consumers of the ticker projection mounted side by side, one ticker
\* and one snapshot.
SharedMessages == { << [s |-> <<"A", USDT>>, c |-> p] >> : p \in Prices }
SharedSnapshots == [{ <<"A">> } -> {1}]

SharedNext ==
  \/ \E c \in Consumers : MountTickers(c)
  \/ \E c \in Consumers : UnmountTickers(c)
  \/ \E c \in Consumers, m \in SharedMessages : TickerMessage(c, m)
  \/ \E c \in Consumers : TickerFlush(c)
  \/ \E c \in Consumers, d \in SharedSnapshots : RestResponse(c, d)
  \/ \E l \in Listeners : MountPrice(l, <<"A">>)
  \/ \E l \in Listeners : UnmountPrice(l)

SharedSpec == Init /\ [][SharedNext]_vars

\* A consumer of useBinancePrice whose symbol changes between A and B while
\* the ticker stream carries A only.
PriceHookSymbols == { <<"A">>, <<"B">> }

PriceHookNext ==
  \/ \E c \in Consumers : MountTickers(c)
  \/ \E c \in Consumers : UnmountTickers(c)
  \/ \E c \in Consumers, m \in SharedMessages : TickerMessage(c, m)
  \/ \E c \in Consumers : TickerFlush(c)
  \/ \E c \in Consumers, d \in SharedSnapshots : RestResponse(c, d)
  \/ \E l \in Listeners, sym \in PriceHookSymbols : MountPrice(l, sym)
  \/ \E l \in Listeners, sym \in PriceHookSymbols : PriceSymbolChange(l, sym)
  \/ \E l \in Listeners : UnmountPrice(l)

PriceHookSpec == Init /\ [][PriceHookNext]_vars

TradeSymbols == { <<"A">>, <<"B">> }

TradesNext ==
  \/ \E sym \in TradeSymbols : MountTrades(sym)
  \/ \E sym \in TradeSymbols : TradesSymbolChange(sym)
  \/ UnmountTrades
  \/ TradeMessage
  \/ TradeMessageNotJson
  \/ TradeMessageNoFields
  \/ TradeFlush

TradesSpec == Init /\ [][TradesNext]_vars

\* The candle chart: every kline message over two open times, the REST
\* response at any point after the mount.
KlineNext ==
  \/ MountKlines
  \/ UnmountKlines
  \/ \E data \in KlineResponses : KlineResponse(data)
  \/ \E msg \in KlineMessages : KlineMessage(msg)
  \/ KlineMessageNotJson
  \/ KlineMessageNoK
  \/ KlineLiveFlush

KlineSpec == Init /\ [][KlineNext]_vars

\* The order book: depth messages of up to MaxDepthEntries levels a side.
DepthNext ==
  \/ MountDepth
  \/ UnmountDepth
  \/ \E data \in DepthMessages : DepthMessage(data)
  \/ DepthMessageNotJson
  \/ DepthMessageNoSides
  \/ DepthFlush

DepthSpec == Init /\ [][DepthNext]_vars

\* The four feeds side by side, each receiving only messages that are not
\* what its handler expects.
MalformedNext ==
  \/ MountTickers("c1")
  \/ TickerMessageNotJson("c1")
  \/ \E sym \in TradeSymbols : MountTrades(sym)
  \/ TradeMessageNotJson
  \/ TradeMessageNoFields
  \/ TradeFlush
  \/ MountKlines
  \/ KlineMessageNotJson
  \/ KlineMessageNoK
  \/ MountDepth
  \/ DepthMessageNotJson
  \/ DepthMessageNoSides

MalformedSpec == Init /\ [][MalformedNext]_vars

\* The fixed-count tracker: two folders of either window size that may track
\* the same symbol, at a steady price.
WindowSizes == { 2, 3 }
MomentumSymbols == { <<"A">> }
MomentumPrices == { 1 }
MomentumPriceMaps == [MomentumSymbols -> MomentumPrices]

MomentumNext ==
  \/ AdvanceClock
  \/ \E w \in WindowSizes : Len(folders) < MaxFolders /\ handleCreateFolder("f", w, 5)
  \/ \E id \in FolderIds(folders) : removeFolder(id)
  \/ \E id \in FolderIds(folders), sym \in MomentumSymbols : handleAddCoin(id, sym)
  \/ \E id \in FolderIds(folders), sym \in MomentumSymbols : removeCoinFromFolder(id, sym)
  \/ \E prices \in MomentumPriceMaps : setActivePrices(prices)
  \/ \E id \in FolderIds(folders) : handleToggleCalculation(id)
  \/ \E id \in DOMAIN intervalTimers : IntervalTick(id)
  \/ ReloadMomentum

MomentumSpec == Init /\ [][MomentumNext]_vars

\* The fixed-duration tracker: folders of two symbols, prices that move.
TimeWindows == { 1, 2 }
LivePrices == { 1, 2, 5 }
\* one ticker price shared by the tracked symbols at each throttled update
LivePriceMaps == { [s \in CoinSymbols |-> p] : p \in LivePrices }

LiveNext ==
  \/ AdvanceClock
  \/ \E w \in TimeWindows :
       Len(liveFolders) < MaxLiveFolders /\ liveHandleCreateFolder("f", w)
  \/ \E id \in FolderIds(liveFolders) : liveRemoveFolder(id)
  \/ \E id \in FolderIds(liveFolders), sym \in CoinSymbols, p \in Prices :
       liveHandleAddCoin(id, sym, p)
  \/ \E id \in FolderIds(liveFolders), sym \in CoinSymbols : liveRemoveCoinFromFolder(id, sym)
  \/ \E id \in FolderIds(liveFolders), prices \in LivePriceMaps : updateAllPrices(id, prices)
  \/ SaveTimeout
  \/ ReloadLive

LiveSpec == Init /\ [][LiveNext]_vars

\* Load after save, on folder sets the tracker can hold: up to MaxFolders
\* folders of up to two coins, a coin either just added or with three rising
\* samples and the momentum computed from them.
RisingCoin(sym, w) ==
  UpdatedLiveCoin(
    UpdatedLiveCoin(NewLiveCoin(sym, 1, ClockStep), w, [x \in {sym} |-> 2], ClockStep),
    w, [x \in {sym} |-> 3], ClockStep)

RoundTripCoins(w) ==
  { NewLiveCoin(sym, 1, ClockStep) : sym \in CoinSymbols }
    \cup { RisingCoin(sym, w) : sym \in CoinSymbols }

RoundTripCoinLists(w) ==
  { cs \in SeqsUpTo(RoundTripCoins(w), 2) :
      \A i, j \in DOMAIN cs : cs[i].symbol = cs[j].symbol => i = j }

RoundTripFolders ==
  UNION { { [id |-> ToString(t), name |-> "f", coins |-> cs, timeWindow |-> w,
             createdAt |-> t] :
              t \in { ClockStep, 2 * ClockStep }, cs \in RoundTripCoinLists(w) } :
          w \in TimeWindows }

RoundTripInit ==
  /\ mounted = [c \in Consumers |-> FALSE]
  /\ period = [c \in Consumers |-> "24h"]
  /\ wsOpen = [c \in Consumers |-> FALSE]
  /\ pendingUpdatesRef = [c \in Consumers |-> EmptyMap]
  /\ throttleTimerRef = [c \in Consumers |-> "null"]
  /\ flushTimers = [c \in Consumers |-> 0]
  /\ coins = [c \in Consumers |-> EmptyMap]
  /\ fetchLive = [c \in Consumers |-> NoFetch]
  /\ staleFetches = [c \in Consumers |-> 0]
  /\ lastMsg = [c \in Consumers |-> EmptyMap]
  /\ coalesce = [c \in Consumers |-> "none"]
  /\ sharedPriceCache = EmptyMap
  /\ priceListeners = {}
  /\ hookSymbol = [l \in Listeners |-> << >>]
  /\ hookPrice = [l \in Listeners |-> 0]
  /\ lastTicker = EmptyMap
  /\ tradeSymbol = << >>
  /\ pendingTrades = << >>
  /\ tradeTimer = FALSE
  /\ trades = << >>
  /\ arrivals = 0
  /\ delivered = {}
  /\ now = 2 * ClockStep
  /\ folders = << >>
  /\ results = EmptyMap
  /\ intervalsRef = {}
  /\ intervalTimers = EmptyMap
  /\ priceBuffersRef = EmptyMap
  /\ activePricesRef = EmptyMap
  /\ momentumStorage = << >>
  /\ liveFolders \in SeqsUpTo(RoundTripFolders, MaxFolders)
  /\ saveTimeoutRef = TRUE
  /\ liveStorageV2 = << >>
  /\ liveStorageOld = << >>
  /\ RestInit
  /\ EngineIdle

RoundTripNext ==
  \/ SaveTimeout
  \/ ReloadLive

RoundTripSpec == RoundTripInit /\ [][RoundTripNext]_vars

\* First load of the fixed-duration tracker over what the earlier version
\* left under 'liveMomentumFolders': up to MaxLegacyFolders full folders,
\* coins with their price history and momentum.
MaxLegacyFolders == 2

LegacyFolderLists ==
  UNION { { fs \in [1..n -> RoundTripFolders] :
              \A i \in 1..n : fs[i].id = ToString(i * ClockStep) } :
          n \in 0..MaxLegacyFolders }

LegacyInit ==
  /\ mounted = [c \in Consumers |-> FALSE]
  /\ period = [c \in Consumers |-> "24h"]
  /\ wsOpen = [c \in Consumers |-> FALSE]
  /\ pendingUpdatesRef = [c \in Consumers |-> EmptyMap]
  /\ throttleTimerRef = [c \in Consumers |-> "null"]
  /\ flushTimers = [c \in Consumers |-> 0]
  /\ coins = [c \in Consumers |-> EmptyMap]
  /\ fetchLive = [c \in Consumers |-> NoFetch]
  /\ staleFetches = [c \in Consumers |-> 0]
  /\ lastMsg = [c \in Consumers |-> EmptyMap]
  /\ coalesce = [c \in Consumers |-> "none"]
  /\ sharedPriceCache = EmptyMap
  /\ priceListeners = {}
  /\ hookSymbol = [l \in Listeners |-> << >>]
  /\ hookPrice = [l \in Listeners |-> 0]
  /\ lastTicker = EmptyMap
  /\ tradeSymbol = << >>
  /\ pendingTrades = << >>
  /\ tradeTimer = FALSE
  /\ trades = << >>
  /\ arrivals = 0
  /\ delivered = {}
  /\ now = 3 * ClockStep
  /\ folders = << >>
  /\ results = EmptyMap
  /\ intervalsRef = {}
  /\ intervalTimers = EmptyMap
  /\ priceBuffersRef = EmptyMap
  /\ activePricesRef = EmptyMap
  /\ momentumStorage = << >>
  /\ liveFolders = << >>
  /\ saveTimeoutRef = FALSE
  /\ liveStorageV2 = << >>
  /\ liveStorageOld \in { << fs >> : fs \in LegacyFolderLists }
  /\ RestInit
  /\ EngineIdle

LegacyNext ==
  \/ ReloadLive
  \/ SaveTimeout
  \/ \E id \in FolderIds(liveFolders) : liveRemoveFolder(id)

LegacySpec == LegacyInit /\ [][LegacyNext]_vars

\* Both trackers up to their folder limits: folders without coins, created
\* and removed through the components' handlers, saved and loaded again.
FolderLimitNext ==
  \/ AdvanceClock
  \/ \E name \in { "", "f" } : handleCreateFolder(name, 2, 5)
  \/ \E id \in FolderIds(folders) : removeFolder(id)
  \/ ReloadMomentum
  \/ \E name \in { "", "f" } : liveHandleCreateFolder(name, 1)
  \/ \E id \in FolderIds(liveFolders) : liveRemoveFolder(id)
  \/ SaveTimeout
  \/ ReloadLive

FolderLimitSpec == Init /\ [][FolderLimitNext]_vars

\* updateAllPrices on two fixed-duration folders: the first with up to two
\* coins, a coin just loaded, just added at second 1, or added at second 1
\* and updated at second 2; the price map may lack a symbol or hold 0 for it.
TwoSampleCoin(sym, w) ==
  UpdatedLiveCoin(NewLiveCoin(sym, 1, ClockStep), w, [x \in {sym} |-> 2], 2 * ClockStep)

LiveUpdateCoins(w) ==
  UNION { { LoadedCoin(sym), NewLiveCoin(sym, 1, ClockStep), TwoSampleCoin(sym, w) } :
          sym \in CoinSymbols }

LiveUpdateCoinLists(w) ==
  { cs \in SeqsUpTo(LiveUpdateCoins(w), 2) :
      \A i, j \in DOMAIN cs : cs[i].symbol = cs[j].symbol => i = j }

LiveUpdateFolders(t) ==
  UNION { { [id |-> ToString(t), name |-> "f", coins |-> cs, timeWindow |-> w,
             createdAt |-> t] : cs \in LiveUpdateCoinLists(w) } :
          w \in TimeWindows }

\* the second folder: one coin, added at second 2
OtherFolders ==
  { [id |-> ToString(2 * ClockStep), name |-> "g",
     coins |-> << NewLiveCoin(sym, 1, 2 * ClockStep) >>,
     timeWindow |-> 1, createdAt |-> 2 * ClockStep] :
       sym \in CoinSymbols }

UpdatePriceMaps ==
  UNION { [S -> 0..MaxPrice] : S \in SUBSET CoinSymbols }

UpdateInit ==
  /\ mounted = [c \in Consumers |-> FALSE]
  /\ period = [c \in Consumers |-> "24h"]
  /\ wsOpen = [c \in Consumers |-> FALSE]
  /\ pendingUpdatesRef = [c \in Consumers |-> EmptyMap]
  /\ throttleTimerRef = [c \in Consumers |-> "null"]
  /\ flushTimers = [c \in Consumers |-> 0]
  /\ coins = [c \in Consumers |-> EmptyMap]
  /\ fetchLive = [c \in Consumers |-> NoFetch]
  /\ staleFetches = [c \in Consumers |-> 0]
  /\ lastMsg = [c \in Consumers |-> EmptyMap]
  /\ coalesce = [c \in Consumers |-> "none"]
  /\ sharedPriceCache = EmptyMap
  /\ priceListeners = {}
  /\ hookSymbol = [l \in Listeners |-> << >>]
  /\ hookPrice = [l \in Listeners |-> 0]
  /\ lastTicker = EmptyMap
  /\ tradeSymbol = << >>
  /\ pendingTrades = << >>
  /\ tradeTimer = FALSE
  /\ trades = << >>
  /\ arrivals = 0
  /\ delivered = {}
  /\ now = 2 * ClockStep
  /\ folders = << >>
  /\ results = EmptyMap
  /\ intervalsRef = {}
  /\ intervalTimers = EmptyMap
  /\ priceBuffersRef = EmptyMap
  /\ activePricesRef = EmptyMap
  /\ momentumStorage = << >>
  /\ liveFolders \in
       { << f >> : f \in LiveUpdateFolders(ClockStep) }
         \cup { << f, g >> : f \in LiveUpdateFolders(ClockStep), g \in OtherFolders }
  /\ saveTimeoutRef = TRUE
  /\ liveStorageV2 = << >>
  /\ liveStorageOld = << >>
  /\ RestInit
  /\ EngineIdle

MaxUpdateClock == 4

\* Date.now() advances by a second, up to second MaxUpdateClock.
UpdateClock ==
  /\ now < MaxUpdateClock * ClockStep
  /\ now' = now + ClockStep
  /\ UNCHANGED << tickerVars, cacheVars, tradeVars, momentumVars, liveVars, restVars >>

UpdateNext ==
  \/ UpdateClock
  \/ /\ lastCall = << >>
     /\ \E id \in FolderIds(liveFolders), prices \in UpdatePriceMaps :
          ObservedUpdateAllPrices(id, prices)

UpdateSpec == UpdateInit /\ [][UpdateNext]_vars

\* Ticks of one fixed-count folder of two symbols whose price map may lack a
\* symbol or hold 0 for it.
TickPriceMaps == UNION { [S -> 0..1] : S \in SUBSET CoinSymbols }

TickNext ==
  \/ folders = << >> /\ handleCreateFolder("f", 2, 5)
  \/ \E id \in FolderIds(folders), sym \in CoinSymbols : handleAddCoin(id, sym)
  \/ \E prices \in TickPriceMaps : setActivePrices(prices)
  \/ \E id \in FolderIds(folders) : handleToggleCalculation(id)
  \/ \E id \in DOMAIN intervalTimers : IntervalTick(id)

TickSpec == Init /\ [][TickNext]_vars

\* The mounted LiveMomentumTracker: one folder of one coin, coins snapshots
\* of one symbol that arrive at any half second.
ThrottleSnapshots == [{ <<"A">> } -> Prices]

ThrottleNext ==
  \/ ThrottleClock
  \/ \E snapshot \in ThrottleSnapshots : CoinsChange(snapshot)
  \/ UpdateTimerFires
  \/ liveFolders = << >> /\ liveHandleCreateFolder("f", 1)
  \/ \E id \in FolderIds(liveFolders) : liveHandleAddCoin(id, <<"A">>, 1)

ThrottleSpec == Init /\ [][ThrottleNext]_vars

\* Time passes and a timeout that is due fires.
ThrottleLiveSpec ==
  ThrottleSpec /\ WF_vars(ThrottleClock) /\ WF_vars(UpdateTimerFires)

\* The regression engines as functions: every price sequence of up to
\* MaxEngineLen samples over prices that are small or close to the widest
\* significand.
MaxEngineLen == 5
EnginePrices == { 1, 2, 831 }
EngineInputs == SeqsUpTo(EnginePrices, MaxEngineLen)

EngineInit ==
  /\ ProgramInit
  /\ engineInput \in EngineInputs
  /\ engineOutput = << >>
  /\ liveEngineOutput = << >>
  /\ lastCall = << >>
  /\ ThrottleIdle

EngineNext ==
  \/ ApplyCalculateMomentum
  \/ ApplyLinearRegressionMomentum

EngineSpec == EngineInit /\ [][EngineNext]_vars

(***************************************************************************)
(* Properties                                                              *)
(***************************************************************************)

\* C1: on a live subscription, a non-empty pending ticker map always has a
\* flush timer scheduled, also after the subscription was torn down and
\* set up again.
C1_PendingHasTimer ==
  \A c \in Consumers :
    (wsOpen[c] /\ pendingUpdatesRef[c] # EmptyMap) => flushTimers[c] > 0

\* C2: at most one flush timer is scheduled per consumer, and the flush that
\* ends a throttle period empties the pending map, leaves no timer behind
\* and gives every listed coin with a ticker in the period the price of the
\* last ticker received for it, every other listed coin its old price.
C2_OneFlushLastWins ==
  [][\A c \in Consumers :
       /\ flushTimers'[c] <= 1
       /\ (TickerFlush(c) /\ pendingUpdatesRef[c] # EmptyMap) =>
            /\ flushTimers'[c] = 0
            /\ pendingUpdatesRef'[c] = EmptyMap
            /\ DOMAIN coins'[c] = DOMAIN coins[c]
            /\ \A sym \in DOMAIN coins[c] :
                 IF \E ts \in DOMAIN lastMsg[c] : ReplaceUSDT(ts) = sym
                 THEN \A ts \in DOMAIN lastMsg[c] :
                        ReplaceUSDT(ts) = sym => coins'[c][sym] = lastMsg[c][ts]
                 ELSE coins'[c][sym] = coins[c][sym]]_vars

\* A flush has just applied a period in which a later ticker replaced an
\* earlier one of the same symbol, with both coins listed.
C2_Witness ==
  /\ coalesce["c1"] = "flushed"
  /\ DOMAIN coins["c1"] = CoinSymbols
  /\ flushTimers["c1"] = 0

\* C3: at most one all-symbols ticker connection is open.
C3_SingleTickerSocket ==
  Cardinality({ c \in Consumers : wsOpen[c] }) <= 1

\* C4: a raw cache read returns the price of the most recent ticker message
\* of the symbol.
C4_CacheIsLastTicker ==
  \A sym \in DOMAIN lastTicker :
    getSharedPrice(sharedPriceCache, sym) = lastTicker[sym]

\* C5: a flush that fires with a non-empty pending map invokes every
\* subscribed price listener with the cache, whatever the coin list holds.
C5_FlushNotifies ==
  [][\A c \in Consumers :
       (TickerFlush(c) /\ pendingUpdatesRef[c] # EmptyMap) =>
         \A l \in priceListeners :
           hookPrice'[l] = ListenerResult(sharedPriceCache, l, hookPrice[l])]_vars

\* C6: the recent-trades list has at most 50 entries, ordered newest first
\* (also inside one flushed batch), and they are the most recently arrived
\* of the trades flushed while the component was mounted.
C6_NewestFirstCapped ==
  /\ Len(trades) <= TradeCap
  /\ \A i \in 1..(Len(trades) - 1) : trades[i].id > trades[i + 1].id
  /\ \A i \in 1..Len(trades) : \A n \in delivered :
       n > trades[i].id => \E j \in 1..Len(trades) : trades[j].id = n


DistinctFolderIds ==
  \A i, j \in DOMAIN folders : folders[i].id = folders[j].id => i = j

\* C7: in the fixed-count tracker the prices sequence of every coin of every
\* folder never holds more than the folder's windowSize entries, for any
\* interleaving of ticks, ticks of a second folder that tracks the same
\* symbol included.  Stated for folders of distinct ids.
C7_PricesWithinWindow ==
  DistinctFolderIds =>
    \A i \in DOMAIN folders : \A j \in DOMAIN folders[i].coins :
      Len(folders[i].coins[j].prices) <= folders[i].windowSize

\* C8: a fixed-count folder is active if and only if exactly one repeating
\* timer is scheduled for it, after any sequence of toggleCalculation calls
\* and after the folder set is read back from storage.  Stated for folders
\* of distinct ids.
C8_ActiveIffOneTimer ==
  DistinctFolderIds =>
    \A i \in DOMAIN folders :
      folders[i].isActive <=> TimerCount(intervalTimers, folders[i].id) = 1

\* C9: no folder record that a momentum tracker wrote to durable storage
\* holds a coin's price history or its momentum, velocity or rSquared.
HistoryKeys == { "prices", "momentum", "velocity", "rSquared" }

StoredCoinStructural(rec) ==
  "coins" \in DOMAIN rec =>
    \A j \in DOMAIN rec.coins : (DOMAIN rec.coins[j]) \cap HistoryKeys = {}

C9_StoredRecordsStructural ==
  /\ \A i \in DOMAIN momentumStorage : StoredCoinStructural(momentumStorage[i])
  /\ liveStorageV2 # << >> =>
       \A i \in DOMAIN liveStorageV2[1] : StoredCoinStructural(liveStorageV2[1][i])

\* C10: for the fixed-duration tracker, loadFoldersFromStorage applied to what
\* saveFoldersToStorage wrote for the folder set returns folders with the
\* same id, name, ordered symbol list, timeWindow and createdAt, in which
\* every coin has no prices and momentum = velocity = rSquared = 0.
C10_LoadAfterSave ==
  LET loaded == loadFoldersFromStorage(<< saveFoldersToStorage(liveFolders) >>,
                                       liveStorageOld).folders
  IN  /\ Len(loaded) = Len(liveFolders)
      /\ \A i \in DOMAIN liveFolders :
           /\ loaded[i].id = liveFolders[i].id
           /\ loaded[i].name = liveFolders[i].name
           /\ loaded[i].timeWindow = liveFolders[i].timeWindow
           /\ loaded[i].createdAt = liveFolders[i].createdAt
           /\ Len(loaded[i].coins) = Len(liveFolders[i].coins)
           /\ \A j \in DOMAIN liveFolders[i].coins :
                /\ loaded[i].coins[j].symbol = liveFolders[i].coins[j].symbol
                /\ loaded[i].coins[j].prices = << >>
                /\ loaded[i].coins[j].momentum = FZero
                /\ loaded[i].coins[j].velocity = FZero
                /\ loaded[i].coins[j].rSquared = FZero

\* Two folders read back from a save, the first with two coins.
C10_Witness ==
  /\ liveStorageV2 # << >>
  /\ Len(liveFolders) = 2
  /\ Len(liveFolders[1].coins) = 2
  /\ liveFolders[1].coins[1].symbol # liveFolders[1].coins[2].symbol
  /\ \A i \in DOMAIN liveFolders : \A j \in DOMAIN liveFolders[i].coins :
       /\ liveFolders[i].coins[j].prices = << >>
       /\ liveFolders[i].coins[j].lastUpdate = 0

\* C11: every trend label shown, in the results list of a fixed-count
\* folder, on a fixed-count coin's row and on a fixed-duration coin's row, is
\* FLAT whenever the coin's rSquared is below the floor of its tracker (0.3
\* fixed-count, 0.2 fixed-duration), whatever its momentum.
C11_FlatBelowFloor ==
  /\ \A id \in DOMAIN results : \A i \in DOMAIN results[id] :
       FLess(results[id][i].rSquared, FLit(3, 10)) => results[id][i].trend = "FLAT"
  /\ \A i \in DOMAIN folders : \A j \in DOMAIN folders[i].coins :
       FLess(folders[i].coins[j].rSquared, FLit(3, 10))
         => MomentumRowTrend(folders[i].coins[j]) = "FLAT"
  /\ \A i \in DOMAIN liveFolders : \A j \in DOMAIN liveFolders[i].coins :
       LET coin == liveFolders[i].coins[j]
       IN  FLess(coin.rSquared, FLit(2, 10))
             => /\ liveGetTrendState(coin.momentum, coin.rSquared) = "FLAT"
                /\ LiveRowTrend(coin) = "FLAT"

\* A message that is not JSON, or a JSON value without the fields the
\* handler reads, arrives on one of the four feeds.
MalformedMessage ==
  \/ \E c \in Consumers : TickerMessageNotJson(c)
  \/ TradeMessageNotJson
  \/ TradeMessageNoFields
  \/ KlineMessageNotJson
  \/ KlineMessageNoK
  \/ DepthMessageNotJson
  \/ DepthMessageNoSides

\* C12: on each of the four feeds (ticker, kline, depth, trade) a message
\* that is not valid JSON or lacks the expected fields is dropped: no
\* exception leaves the handler, and the pending buffer, the timer, the
\* shared cache and the consumer's state are as they were before it.
C12_MalformedDropped ==
  [][MalformedMessage =>
       /\ uncaught' = uncaught
       /\ UNCHANGED << pendingUpdatesRef, throttleTimerRef, flushTimers, sharedPriceCache,
                       coins, hookPrice, pendingTrades, tradeTimer, trades,
                       pendingLiveCandle, liveUpdateTimer, klines,
                       pendingData, depthTimer, bids, asks >>]_vars

IsZeroResult(r) == r.momentum = FZero /\ r.velocity = FZero /\ r.rSquared = FZero

ConstantPrices(prices) == \A i \in DOMAIN prices : prices[i] = prices[1]

\* C13: both regression engines return exactly momentum 0, velocity 0 and
\* rSquared 0 for every sequence of fewer than three prices, and rSquared 0
\* and momentum 0 for every constant sequence of three prices or more.
C13_ZeroForShortOrConstant ==
  \A out \in { engineOutput, liveEngineOutput } :
    out # << >> =>
      /\ Len(engineInput) < 3 => IsZeroResult(out[1])
      /\ Len(engineInput) >= 3 /\ ConstantPrices(engineInput)
           => out[1].rSquared = FZero /\ out[1].momentum = FZero

FAbs(a) == [m |-> Abs(a.m), e |-> a.e]

\* C14: for every sequence of three prices or more (bounded positive
\* prices) the rSquared an engine returns lies in [0, 1], and so the
\* magnitude of momentum = velocity * rSquared is at most that of velocity.
C14_RSquaredInUnitInterval ==
  \A out \in { engineOutput, liveEngineOutput } :
    out # << >> /\ Len(engineInput) >= 3 =>
      /\ ~FLess(out[1].rSquared, FZero)
      /\ ~FLess(FOne, out[1].rSquared)
      /\ ~FLess(FAbs(out[1].velocity), FAbs(out[1].momentum))

\* book is what processEntries publishes for the entries of one side: the
\* first DepthLimit of them, in message order, each with the running sum of
\* amount * price up to it.
PublishedFrom(book, entries) ==
  /\ Len(book) = (IF Len(entries) < DepthLimit THEN Len(entries) ELSE DepthLimit)
  /\ \A i \in DOMAIN book :
       /\ book[i].price = parseFloat(entries[i][1])
       /\ book[i].amount = parseFloat(entries[i][2])
       /\ book[i].total = FAdd[IF i = 1 THEN FZero ELSE book[i - 1].total,
                               FMul[book[i].amount, book[i].price]]

\* C15: each depth flush of useOrderBook publishes, for bids and asks
\* separately, the first limit entries of the latest depth message in
\* message order, with total[i] = total[i-1] + amount[i] * price[i]; the asks
\* are then reversed for display and keep the totals computed before the
\* reversal.
C15_FlushPublishesLatest ==
  [][DepthFlush =>
       /\ lastDepth # << >>
       /\ PublishedFrom(bids', lastDepth[1].b)
       /\ PublishedFrom(Reverse(asks'), lastDepth[1].a)]_vars

\* The bids [[100, 1], [99, 2], ...] of a three-level message were published
\* with the totals 100 and 298, the asks with the larger total first.
C15_Witness ==
  /\ lastDepth # << >>
  /\ pendingData = << >>
  /\ Len(lastDepth[1].b) = 3
  /\ Len(lastDepth[1].a) = 3
  /\ bids = << [price |-> FInt(100), amount |-> FInt(1), total |-> FInt(100)],
               [price |-> FInt(99), amount |-> FInt(2), total |-> FInt(298)] >>
  /\ Len(asks) = 2
  /\ asks[2].price = parseFloat(lastDepth[1].a[1][1])
  /\ FLess(asks[2].total, asks[1].total)


\* What holds after the closed candle kline was handled.
ClosedApplied(kline) ==
  /\ Cardinality({ i \in DOMAIN klines' : klines'[i].openTime = kline.openTime }) = 1
  /\ \E i \in DOMAIN klines' : klines'[i] = kline
  /\ \A i \in DOMAIN klines' : \A j \in DOMAIN klines' :
       i < j => klines'[i].openTime <= klines'[j].openTime
  /\ pendingLiveCandle' = << >>
  /\ ~liveUpdateTimer'

\* C20: a closed kline message for open time T is applied in the callback
\* itself: afterwards the list holds exactly one candle of open time T, the
\* closed one, and is sorted by ascending open time; the pending in-progress
\* candle and its 500 ms timer are discarded, so no timer is left that could
\* replace the closed candle by an earlier in-progress one.
C20_ClosedCandleApplied ==
  [][\A msg \in KlineMessages : (msg.x /\ KlineMessage(msg)) => ClosedApplied(msg.k)]_vars

\* The first message after the REST response was a closed candle of open
\* time 1: it replaced the first of the two candles of the response.
C20_Witness ==
  /\ klineOpen
  /\ ~klineFetch
  /\ klineArrivals = 1
  /\ klines = << [openTime |-> 1, close |-> 2], [openTime |-> 2, close |-> 1] >>
  /\ pendingLiveCandle = << >>
  /\ ~liveUpdateTimer


\* C17: adding a symbol that every folder of that id already holds leaves
\* all folders unchanged, throws nothing, and is reported as a no-op with a
\* notice, not as a successful addition (fixed-count tracker; the handler of
\* the fixed-duration tracker ends with the same statements).
C17_DuplicateAddIsNoticed ==
  [][\A id \in FolderIds(folders) : \A sym \in MomentumSymbols :
       ( /\ \A i \in DOMAIN folders : folders[i].id = id => HasCoin(folders[i], sym)
         /\ handleAddCoin(id, sym) )
       => /\ folders' = folders
          /\ uncaught' = uncaught
          /\ toast'.kind # "success"]_vars


\* fs is the migration of the legacy folders old: folder by folder the same
\* id, name, symbols and timeWindow, no history and zero results.
MigrationOf(fs, old) ==
  /\ Len(fs) = Len(old)
  /\ \A i \in DOMAIN fs :
       /\ fs[i].id = old[i].id
       /\ fs[i].name = old[i].name
       /\ fs[i].timeWindow = old[i].timeWindow
       /\ Len(fs[i].coins) = Len(old[i].coins)
       /\ \A j \in DOMAIN fs[i].coins :
            /\ fs[i].coins[j].symbol = old[i].coins[j].symbol
            /\ fs[i].coins[j].prices = << >>
            /\ fs[i].coins[j].momentum = FZero
            /\ fs[i].coins[j].velocity = FZero
            /\ fs[i].coins[j].rSquared = FZero

\* C18: a load that finds only the legacy key returns one folder per legacy
\* folder with the same id, name, symbol list and timeWindow, every coin
\* with an empty price history and momentum, velocity and rSquared 0, and
\* deletes the legacy key; the key never comes back, so the migration
\* happens once.
C18_LegacyMigration ==
  [][ /\ (liveStorageV2 = << >> /\ liveStorageOld # << >> /\ ReloadLive)
         => /\ MigrationOf(liveFolders', liveStorageOld[1])
            /\ liveStorageOld' = << >>
      /\ liveStorageOld = << >> => liveStorageOld' = << >> ]_vars

\* Two legacy folders were migrated: a coin kept its last price but has no
\* history, and neither key is in the storage.
C18_Witness ==
  /\ liveStorageV2 = << >>
  /\ liveStorageOld = << >>
  /\ saveTimeoutRef
  /\ Len(liveFolders) = 2
  /\ \E j \in DOMAIN liveFolders[2].coins :
       /\ liveFolders[2].coins[j].currentPrice = 3
       /\ liveFolders[2].coins[j].prices = << >>
       /\ liveFolders[2].coins[j].momentum = FZero


RejectedAtLimit ==
  /\ toast' = Toast("error", "max")
  /\ UNCHANGED << folders, momentumStorage, liveFolders, liveStorageV2, liveStorageOld >>

\* C16: the fixed-count tracker never holds more than 7 folders and the
\* fixed-duration tracker never more than 10, also after loading what was
\* persisted; a create request at the maximum is rejected with a reason
\* shown to the user and leaves the folders unchanged.
C16_FolderLimit ==
  /\ [](Len(folders) <= MomentumFolderLimit /\ Len(liveFolders) <= LiveFolderLimit)
  /\ [][ /\ (Len(folders) >= MomentumFolderLimit /\ handleCreateFolder("f", 2, 5))
            => RejectedAtLimit
         /\ (Len(liveFolders) >= LiveFolderLimit /\ liveHandleCreateFolder("f", 1))
            => RejectedAtLimit ]_vars

\* Both trackers are full, also in the storage, and the last create request
\* was rejected.
C16_Witness ==
  /\ Len(folders) = MomentumFolderLimit
  /\ Len(ParseFolders(momentumStorage)) = MomentumFolderLimit
  /\ Len(liveFolders) = LiveFolderLimit
  /\ liveStorageV2 # << >>
  /\ Len(liveStorageV2[1]) = LiveFolderLimit
  /\ ~saveTimeoutRef
  /\ toast = Toast("error", "max")


\* The price the map holds for the coin is defined and not zero.
Supplied(prices, coin) == coin.symbol \in DOMAIN prices /\ prices[coin.symbol] # 0

\* The samples of coin after price was appended at time t and the samples
\* older than the window were removed.
PrunedWith(coin, price, t, timeWindow) ==
  SelectSeq(Append(coin.prices, [price |-> price, timestamp |-> t]),
            LAMBDA d : ~(d.timestamp < t - timeWindow * 1000))

\* C21: updateAllPrices(folderId, prices) at time now changes a coin of that
\* folder exactly when the price of its symbol is defined, not zero and
\* either differs from the coin's currentPrice or the coin has no samples;
\* then {price, now} is appended, every sample older than now - timeWindow
\* seconds is removed and the engine's result on the pruned samples is
\* stored; the folders of another id are unchanged.
C21_UpdateAllPrices ==
  \A call \in { lastCall[k] : k \in DOMAIN lastCall } :
    /\ Len(liveFolders) = Len(call.before)
    /\ \A i \in DOMAIN call.before :
         IF call.before[i].id # call.folderId THEN liveFolders[i] = call.before[i]
         ELSE /\ Len(liveFolders[i].coins) = Len(call.before[i].coins)
              /\ \A j \in DOMAIN call.before[i].coins :
                   LET coin == call.before[i].coins[j]
                       after == liveFolders[i].coins[j]
                       takes == /\ Supplied(call.prices, coin)
                                /\ \/ call.prices[coin.symbol] # coin.currentPrice
                                   \/ coin.prices = << >>
                   IN  /\ (after # coin) <=> takes
                       /\ takes =>
                            /\ after.prices = PrunedWith(coin, call.prices[coin.symbol],
                                                         call.at, call.before[i].timeWindow)
                            /\ LET r == calculateLinearRegressionMomentum(after.prices)
                               IN  /\ after.momentum = r.momentum
                                   /\ after.velocity = r.velocity
                                   /\ after.rSquared = r.rSquared

\* The first folder's coin, added at second 1 with a window of one second,
\* took a new price at second 3: the sample of second 1 is gone; the second
\* folder still holds its coin as added.
C21_Witness ==
  /\ lastCall # << >>
  /\ now = 3 * ClockStep
  /\ Len(liveFolders) = 2
  /\ liveFolders[1].timeWindow = 1
  /\ Len(liveFolders[1].coins) = 2
  /\ liveFolders[1].coins[1].lastUpdate = now
  /\ liveFolders[1].coins[1].prices = << [price |-> 2, timestamp |-> now] >>
  /\ liveFolders[1].coins[2].lastUpdate < now
  /\ liveFolders[2].coins[1].prices = << [price |-> 1, timestamp |-> 2 * ClockStep] >>


\* C28: after an updateAllPrices call at time now that supplies a defined
\* non-zero price for a coin of the folder, every stored sample of the coin
\* has a timestamp >= now - timeWindow seconds and the stored momentum,
\* velocity and rSquared are the engine's output on the stored samples, also
\* when the price supplied equals the coin's current price.
C28_WindowAfterEveryUpdate ==
  \A call \in { lastCall[k] : k \in DOMAIN lastCall } :
    \A i \in DOMAIN call.before :
      call.before[i].id = call.folderId =>
        \A j \in DOMAIN call.before[i].coins :
          Supplied(call.prices, call.before[i].coins[j]) =>
            LET after == liveFolders[i].coins[j]
                r == calculateLinearRegressionMomentum(after.prices)
            IN  /\ \A k \in DOMAIN after.prices :
                     after.prices[k].timestamp >= call.at - call.before[i].timeWindow * 1000
                /\ after.momentum = r.momentum
                /\ after.velocity = r.velocity
                /\ after.rSquared = r.rSquared


\* The entries of symbol sym in the results list of folder id.
EntriesOf(res, id, sym) ==
  IF id \in DOMAIN res THEN SelectSeq(res[id], LAMBDA r : r.symbol = sym) ELSE << >>

\* C22: on a tick of a fixed-count folder whose price map has no entry or a
\* zero price for the symbol of one of its coins, nothing changes for that
\* coin: its record, the shared buffer of the symbol and its entry in the
\* folder's results list stay as they were.
C22_TickWithoutPriceIsNoop ==
  [][\A id \in DOMAIN intervalTimers :
       IntervalTick(id) =>
         \A i \in DOMAIN folders : \A j \in DOMAIN folders[i].coins :
           LET coin == folders[i].coins[j]
               sym == coin.symbol
           IN  (folders[i].id = id
                  /\ (sym \notin DOMAIN activePricesRef \/ activePricesRef[sym] = 0))
               => /\ folders'[i].coins[j] = coin
                  /\ (sym \in DOMAIN priceBuffersRef) = (sym \in DOMAIN priceBuffersRef')
                  /\ sym \in DOMAIN priceBuffersRef => priceBuffersRef'[sym] = priceBuffersRef[sym]
                  /\ EntriesOf(results', id, sym) = EntriesOf(results, id, sym)]_vars


\* Two rounds that follow each other are at least a second apart.
RoundsApart ==
  Len(roundLog) = 2 => roundLog[2].at - roundLog[1].at >= ThrottleInterval

\* A step that runs a round runs it on the coins the component holds then.
RoundUsesLatest ==
  roundLog' # roundLog =>
    /\ roundLog'[Len(roundLog')].prices = coinsSnapshot'
    /\ roundLog'[Len(roundLog')].change = snapshotChanges'

\* C23: two consecutive rounds of updateAllPrices are never less than 1000
\* ms apart, a round uses the prices of the latest coins snapshot, and every
\* change of coins is eventually followed by such a round: an update that
\* waits for its time is rescheduled by the next change, never lost.
C23_ThrottledRounds ==
  /\ [] RoundsApart
  /\ [][RoundUsesLatest]_vars
  /\ \A k \in 1..MaxSnapshots :
       (snapshotChanges = k) ~>
         (roundLog # << >> /\ roundLog[Len(roundLog)].change >= k)

\* Two changes of coins within the same second, the second one rescheduled
\* and served by the timeout a second after the first round.
C23_Witness ==
  /\ Len(roundLog) = 2
  /\ roundLog[1].change = 1
  /\ roundLog[2].change = 3
  /\ roundLog[2].at - roundLog[1].at = ThrottleInterval
  /\ snapshotChanges = 3
  /\ updateTimer = << >>
  /\ Len(liveFolders) = 1
  /\ Len(liveFolders[1].coins) = 1
  /\ liveFolders[1].coins[1].lastUpdate = roundLog[2].at


\* C24: the list of useRecentTrades holds trades of the subscribed symbol
\* only; after the symbol changed no trade of the symbol before remains.
C24_TradesOfSubscribedSymbol ==
  tradeSymbol # << >> =>
    \A i \in DOMAIN trades : trades[i].symbol = tradeSymbol


\* C25: the value of useBinancePrice(S) is 0 or a price cached for S; in
\* particular a hook that reports a price has a symbol the cache knows.
C25_PriceOfOwnSymbol ==
  \A l \in Listeners :
    (hookSymbol[l] # << >> /\ hookPrice[l] # 0) =>
      hookSymbol[l] \in DOMAIN sharedPriceCache


\* C26: taking a symbol out of one fixed-count folder, or deleting that
\* folder, leaves the window of the symbol as it was for every other folder
\* that tracks it, and a symbol that no folder tracked starts, when it is
\* added at price p, from the window [p].
C26_WindowsAreIndependent ==
  [][/\ \A id \in FolderIds(folders), sym \in MomentumSymbols :
          (\/ HasCoin(FindFolder(folders, id), sym) /\ removeCoinFromFolder(id, sym)
           \/ removeFolder(id)) =>
            \A i \in DOMAIN folders :
              (folders[i].id # id /\ HasCoin(folders[i], sym)
                 /\ sym \in DOMAIN priceBuffersRef)
              => /\ sym \in DOMAIN priceBuffersRef'
                 /\ priceBuffersRef'[sym] = priceBuffersRef[sym]
     /\ \A id \in FolderIds(folders), sym \in MomentumSymbols :
          (/\ handleAddCoin(id, sym)
           /\ toast' = Toast("success", "added")
           /\ \A i \in DOMAIN folders : ~HasCoin(folders[i], sym))
          => priceBuffersRef'[sym] = << activePricesRef[sym] >>]_vars


\* C27: the folders of the fixed-duration tracker are never lost from the
\* durable storage: whenever the page is torn down and loaded again, also
\* between the removal of the legacy key and the save two seconds later,
\* every folder the tracker held, all of them read from the storage, is
\* read back.
C27_StructureSurvivesReload ==
  [][ReloadLive => FolderIds(liveFolders) \subseteq FolderIds(liveFolders')]_vars


\* C29: getSortedResults(folderId) is in order of non-increasing momentum
\* and holds only symbols that are coins of the folder at that moment.
C29_SortedResultsOfFolderCoins ==
  \A id \in FolderIds(folders) :
    LET sorted == getSortedResults(results, id)
    IN  /\ \A k \in 1..(Len(sorted) - 1) :
             ~FLess(sorted[k].momentum, sorted[k + 1].momentum)
        /\ \A k \in DOMAIN sorted : HasCoin(FindFolder(folders, id), sorted[k].symbol)


\* C30: the ids of the folders of a tracker are pairwise different in every
\* state, also after two addFolder calls within the same millisecond.
C30_FolderIdsUnique ==
  /\ \A i, j \in DOMAIN folders : folders[i].id = folders[j].id => i = j
  /\ \A i, j \in DOMAIN liveFolders : liveFolders[i].id = liveFolders[j].id => i = j

=========================================================================
